---- MODULE Spec2Model ----
(***************************************************************************)
(* StegnoSafe steganographic codec: the pixel engine (encodeMessage /      *)
(* decodeMessage with password-seeded pixel scattering), the 16-bit PCM    *)
(* WAV engine (encodeAudioLSB / decodeAudioLSB), the capacity calculators  *)
(* and the AES-GCM / PBKDF2 envelope (encryptData / decryptData).          *)
(*                                                                         *)
(* Numbers that do not fit a 32-bit signed integer (the generator state,   *)
(* a decoded 32-bit length header) are kept as two 16-bit halves           *)
(* [hi, lo]; their arithmetic is exact.                                    *)
(***************************************************************************)
EXTENDS Integers, Sequences, FiniteSets, TLC

\* ------------------------------------------------------------------ bounds
\* Largest index count handed to the scatterer on its own (SpecScatter).
MaxN == 10
\* Largest carrier image, in pixels per side.
MaxW == 6
MaxH == 3
\* Longest payload offered to an encoder, in bytes.
MaxPayloadLen == 3
\* Largest number of 16-bit samples in a WAV carrier.
MaxSamples == 49
\* Largest length value planted in the low bits of a prepared carrier.
MaxCraftLen == 5
\* Size of the largest image, and of the largest WAV in samples, offered to the
\* application: large enough to carry a sealed payload (44 bytes and more).
AppW == 17
AppH == 8
AppSamples == 408
\* Most runs of handleFile, handleEncode and handleDecode in one session.
MaxHandlerRuns == 4
\* Longest run of next() calls followed on one generator (SpecRng).
MaxRngSteps == 2
TkW == 6
TkH == 3
MaxTkEvents == 4
MaxUiEvents == 3

\* Seed / password strings, as sequences of UTF-16 code units.  <<>> is the
\* empty (or absent) password; <<0>> is the one-character string "\0".
Seeds == { <<>>, <<97>>, <<0>>, <<97, 98>>, <<98, 97>> }

VARIABLES
  \* scatterer
  rngState,     \* state field of the SeededRandom constructed last (NoRng: none yet)
  scatterCall,  \* the latest getScatteredIndices call: [n, seed, indices]
  scatterPrev,  \* the call before it
  \* codec
  modality,     \* "image" or "audio": the kind of carrier loaded ("sample": wav is
                \* one 16-bit sample on its own)
  width,        \* imageData.width
  height,       \* imageData.height
  data,         \* imageData.data: RGBA bytes, 4 per pixel
  wav,          \* the caller's WAV ArrayBuffer, as bytes
  stego,        \* the ArrayBuffer encodeAudioLSB returned (<<>>: none)
  op,           \* "load", "encode" or "decode": the operation that ran last
  opErr,        \* "none", or the error that operation threw
  before,       \* the carrier's bytes when that operation was entered
  inPayload,    \* payload argument of the encode
  inPassword,   \* password argument of the encode
  decPassword,  \* password argument of the decode
  decSource,    \* "carrier" or "stego": the buffer handed to decodeAudioLSB
  encoded,      \* "no", "ok" or "failed": the encode that ran on this carrier
  out,          \* the bytes the decode returned
  \* envelope
  phase,        \* "idle", "sealed" or "opened"
  sealPayload,  \* payload argument of encryptData
  sealPassword, \* password argument of encryptData
  blob,         \* the bytes encryptData returned, as they are now
  gcmSealed,    \* what AES-GCM encrypted: [key, iv, ciphertext]
  tamperedAt,   \* index of the first byte of blob changed or cut off since (0: none)
  openPassword, \* password argument of decryptData
  opened,       \* what decryptData did: [err, bytes]
  \* application (App.tsx); its carrier state is modality, width, height,
  \* data (image), wav (audioBuffer) and stego (stegoAudio)
  rawFile,      \* TRUE once handleFile was given a file
  stegoImage,   \* pixels of the stegoImage PNG (<<>>: null)
  passwordField, \* the password state, as the handler that ran last saw it
  secret,       \* payloadType with message or secretFile, as that handler saw them:
                \* [type, chosen, bytes]
  handled,      \* the handler that ran last: "none", "file", "encode" or "decode"
  calls,        \* the codec and envelope calls that handler made, in order
  result,       \* the result state: [type, text, raw]
  handlerRuns,  \* how many times handleFile, handleEncode, handleDecode have run
  \* generator on its own
  lcgFrom,      \* state field before the latest next() (NoRng: none yet)
  lcgWide,      \* state * 1664525 + 1013904223 as that next() held it, before
                \* the modulo: four 16-bit digits, least significant first
  drawn,        \* the draw taken from it: [i, j], j = floor(next() * (i + 1))
  rngSteps,     \* how many times next() has run
  \* parseWavHeader step by step, on the buffer wav
  walkPhase,    \* "idle", "loop" (inside the chunk walk), "returned" or "threw"
  walkErr,      \* the error thrown ("none": none)
  walkOffset,   \* the loop variable offset, as [hi, lo]
  walkRead,     \* offset of the chunk header the latest iteration read (-1: none)
  walkData,     \* the dataOffset returned (-1: none)
  capReturned,  \* what the two calculateAudioCapacity returned: [called, current, legacy]
  \* StegoToolkit.tsx, method 'lsb' and payloadType 'text' (their initial values)
  tkImage,      \* the image state: the file whose data URL it holds (NoFile: null)
  tkCapacity,   \* the capacity state
  tkMode,       \* the mode state: "encode" or "decode"
  tkMessage,    \* the message state, as UTF-8 bytes
  tkResultImage, \* pixels of the resultImage PNG (<<>>: null)
  tkDecoded,    \* decodedBytes: [set, bytes]
  tkError,      \* the error state ("none": null)
  tkIsProcessing, \* the isProcessing state
  tkProgress,   \* the processProgress state
  tkLoads,      \* callbacks of processFile still to run: [stage, file]
  tkOp,         \* the processImage call in flight: its stage, what its closure
                \* holds, and what its timer callback does with that
  tkInterval,   \* TRUE while a stepInterval is set and not cleared
  tkChecked,    \* the latest evaluation of the LSB capacity check: the capacity
                \* and payload length compared, the capacity state at that time,
                \* the image encoded, what it decided
  tkDone,       \* how the latest processImage call ended: "none", "ok" or "error"
  tkResets,     \* how many times reset() has run
  tkStored,     \* TRUE once a call started before a reset() stored its output
  tkEvents,     \* how many user events the toolkit has handled
  \* App.tsx with its callbacks and awaits running apart
  isProcessing, \* the isProcessing state
  capacity,     \* the capacity state
  rawName,      \* the rawFile state: the file it holds (NoFile: null)
  metadata,     \* the metadata state: the file it describes (NoFile: null)
  loads,        \* callbacks of handleFile still to run: [stage, file]
  pending,      \* the handleEncode / handleDecode call suspended at an await:
                \* its kind, what its closure holds, and what its try block
                \* does with that
  finished,     \* the handleEncode / handleDecode call that ended last: how many
                \* have ended, its kind, the codec and envelope calls it made
  lastFile,     \* the file given to the latest handleFile since the last
                \* resetAll (NoFile: none)
  resets,       \* how many resetAll and tab switches have run
  storedLate,   \* TRUE once a call started before a reset stored its output
  activeTab,    \* the activeTab state: "encode" or "decode"
  uiEvents      \* how many user events App has handled

scatterVars == <<rngState, scatterCall, scatterPrev>>
codecVars == <<modality, width, height, data, wav, stego, op, opErr, before,
               inPayload, inPassword, decPassword, decSource, encoded, out>>
cryptoVars == <<phase, sealPayload, sealPassword, blob, gcmSealed, tamperedAt,
                openPassword, opened>>
appVars == <<rawFile, stegoImage, passwordField, secret, handled, calls, result,
             handlerRuns>>
genVars == <<lcgFrom, lcgWide, drawn, rngSteps>>
walkVars == <<walkPhase, walkErr, walkOffset, walkRead, walkData, capReturned>>
tkVars == <<tkImage, tkCapacity, tkMode, tkMessage, tkResultImage, tkDecoded, tkError,
            tkIsProcessing, tkProgress, tkLoads, tkOp, tkInterval, tkChecked, tkDone,
            tkResets, tkStored, tkEvents>>
asyncVars == <<isProcessing, capacity, rawName, metadata, loads, pending, finished,
               lastFile, resets, storedLate, activeTab, uiEvents>>
vars == <<scatterVars, codecVars, cryptoVars, appVars, genVars, walkVars, tkVars,
          asyncVars>>

\* ----------------------------------------------------------- 32-bit words
Half == 2 ^ 16

U32(n) == [hi |-> n \div Half, lo |-> n % Half]

U32IsZero(u) == u.hi = 0 /\ u.lo = 0

\* u > n for an unsigned 32-bit u and an integer n (n may be negative).
U32Gt(u, n) ==
  \/ n < 0
  \/ u.hi > n \div Half
  \/ (u.hi = n \div Half /\ u.lo > n % Half)

\* The value of u when it is known to fit.
U32Small(u) == u.hi * Half + u.lo

\* -------------------------------------------------------------- scatterer
LcgMultiplier == 1664525
LcgIncrement == 1013904223

RECURSIVE SumCodes(_)
SumCodes(seed) == IF seed = <<>> THEN 0 ELSE Head(seed) + SumCodes(Tail(seed))

\* No generator constructed yet.
NoRng == [hi |-> -1, lo |-> -1]

\* A generator shared between calls: it is seeded once and keeps its state.
SeededRandom_shared(seed) ==
  LET sum == SumCodes(seed)
  IN IF rngState # NoRng THEN rngState ELSE U32(IF sum = 0 THEN 1 ELSE sum)

\* A generator whose start state weighs each character code by its position.
RECURSIVE WeightedCodes(_, _)
WeightedCodes(seed, i) ==
  IF seed = <<>> THEN 0 ELSE i * Head(seed) + WeightedCodes(Tail(seed), i + 1)

SeededRandom_positional(seed) ==
  LET sum == WeightedCodes(seed, 1) IN U32(IF sum = 0 THEN 1 ELSE sum)

\* new SeededRandom(seed): the sum of the character codes, or 1 when it is 0.
SeededRandom(seed) ==
  LET sum == SumCodes(seed) IN U32(IF sum = 0 THEN 1 ELSE sum)

\* state * 1664525 + 1013904223, exactly, as four 16-bit digits (least
\* significant first).
LcgWide(s) ==
  LET aL == LcgMultiplier % Half
      aH == LcgMultiplier \div Half
      cL == LcgIncrement % Half
      cH == LcgIncrement \div Half
      p0 == s.lo * aL + cL
      p1 == s.hi * aL + s.lo * aH + cH + (p0 \div Half)
      p2 == s.hi * aH + (p1 \div Half)
  IN <<p0 % Half, p1 % Half, p2 % Half, p2 \div Half>>

\* Bit k of a four-digit value.
WideBit(w, k) == (w[(k \div 16) + 1] \div (2 ^ (k % 16))) % 2

\* Number of significant bits of a four-digit value.
WideBitLen(w) ==
  LET set == {k \in 0..63 : WideBit(w, k) = 1}
  IN IF set = {} THEN 0 ELSE (CHOOSE k \in set : \A m \in set : m <= k) + 1

\* The nearest value with at most `bits` significant bits, ties to even: what
\* a binary floating-point number with a significand of that many bits holds
\* for the integer w.
RoundToBits(w, bits) ==
  LET shift == WideBitLen(w) - bits
  IN IF shift <= 0 THEN w
     ELSE LET q == shift \div 16
              r == shift % 16
              kept == [k \in 1..4 |->
                         IF k - 1 < q THEN 0
                         ELSE IF k - 1 = q THEN w[k] - (w[k] % (2 ^ r))
                         ELSE w[k]]
              sticky == \E b \in 0..(shift - 2) : WideBit(w, b) = 1
              up == WideBit(w, shift - 1) = 1 /\ (sticky \/ WideBit(w, shift) = 1)
              add == [k \in 1..4 |-> IF up /\ k - 1 = q THEN 2 ^ r ELSE 0]
              t1 == kept[1] + add[1]
              t2 == kept[2] + add[2] + (t1 \div Half)
              t3 == kept[3] + add[3] + (t2 \div Half)
              t4 == kept[4] + add[4] + (t3 \div Half)
          IN <<t1 % Half, t2 % Half, t3 % Half, t4>>

\* A number held with a 24-bit significand.
ToDouble_single(w) == RoundToBits(w, 24)

\* A JavaScript number holding the integer w: a 53-bit significand.
ToDouble(w) == IF w[4] < 2 ^ 5 THEN w ELSE RoundToBits(w, 53)

\* rng.next() as JavaScript computes it: the product and sum in a number with
\* a 53-bit significand, then % 4294967296.
NextInDoubles(s) ==
  LET w == ToDouble(LcgWide(s)) IN [hi |-> w[2], lo |-> w[1]]

\* rng.next(): state := (state * 1664525 + 1013904223) % 4294967296, in
\* integers.
SeededRandom_next(s) ==
  LET aL == LcgMultiplier % Half
      aH == LcgMultiplier \div Half
      cL == LcgIncrement % Half
      cH == LcgIncrement \div Half
      p  == s.lo * aL
      t  == (p % Half) + cL
      h  == (p \div Half) + s.hi * aL + s.lo * aH + cH + (t \div Half)
  IN [hi |-> h % Half, lo |-> t % Half]

\* The draw scaled by i instead of i + 1.
Draw_exclusive(s, i) == (s.hi * i + ((s.lo * i) \div Half)) \div Half

\* Math.floor((state / 2^32) * (i + 1)) for the state just produced.
Draw(s, i) == (s.hi * (i + 1) + ((s.lo * (i + 1)) \div Half)) \div Half

Identity(n) == [k \in 1..n |-> k - 1]

\* One iteration of the Fisher-Yates loop that copies instead of swapping.
ShuffleStep_noswap(r, i) ==
  LET s1 == SeededRandom_next(r.state)
      j  == Draw(s1, i)
  IN [indices |-> [r.indices EXCEPT ![i + 1] = r.indices[j + 1]], state |-> s1]

\* One iteration of the Fisher-Yates loop on the array and the generator's
\* state: j = floor(rng.next() * (i + 1)), then indices[i] and indices[j] are
\* exchanged.  Position i is element i + 1 of the TLA+ sequence.
ShuffleStep(r, i) ==
  LET s1 == SeededRandom_next(r.state)
      j  == Draw(s1, i)
  IN [indices |-> [r.indices EXCEPT ![i + 1] = r.indices[j + 1],
                                    ![j + 1] = r.indices[i + 1]], state |-> s1]

\* The iterations i = hi, hi - 1, ..., lo in that order (the upper half of the
\* range, then the lower half, on the array the upper half left; the array
\* keeps its length throughout).
RECURSIVE ShuffleRange(_, _, _)
ShuffleRange(r, hi, lo) ==
  IF hi < lo THEN r
  ELSE IF hi = lo THEN ShuffleStep(r, hi)
  ELSE LET mid == (hi + lo) \div 2
           upper == ShuffleRange(r, hi, mid + 1)
       IN IF Len(upper.indices) = Len(r.indices) THEN ShuffleRange(upper, mid, lo)
          ELSE upper

\* The Fisher-Yates loop, for (i = len - 1; i > 0; i--).  Returns the array
\* and the generator's final state.
Shuffle(indices, i, s) == ShuffleRange([indices |-> indices, state |-> s], i, 1)

\* getScatteredIndices(totalPixels, seed)
getScatteredIndices(totalPixels, seed) ==
  IF seed = <<>> THEN Identity(totalPixels)
  ELSE Shuffle(Identity(totalPixels), totalPixels - 1, SeededRandom(seed)).indices

\* The state field of the generator when getScatteredIndices returns; the
\* call constructs none for an empty seed.
ScatterFinalState(totalPixels, seed) ==
  IF seed = <<>> THEN rngState
  ELSE Shuffle(Identity(totalPixels), totalPixels - 1, SeededRandom(seed)).state

\* ------------------------------------------------------------ bit helpers
\* (byte >> bitOffset) & 1
BitOf(byte, bitOffset) == (byte \div (2 ^ bitOffset)) % 2

\* Stores the bit in place of the value.
SetLsb_clobber(v, bit) == bit

\* Adds the bit to the value.
SetLsb_add(v, bit) == v + bit

\* (value & ~1) | bit, on a byte or on a signed 16-bit sample.
SetLsb(v, bit) == (v - (v % 2)) + bit

\* DataView.setUint32(0, n, false): four bytes, big-endian.
Uint32BE(n) ==
  << (n \div (2 ^ 24)) % 256, (n \div (2 ^ 16)) % 256, (n \div (2 ^ 8)) % 256, n % 256 >>

\* [32-bit length (BE)] + [payload bytes]
CombinedBytes(payload) == Uint32BE(Len(payload)) \o payload

\* The frame bit taken from the least significant end of each byte.
FrameBit_lsbfirst(combined, bitIdx) == BitOf(combined[(bitIdx \div 8) + 1], bitIdx % 8)

\* Bit bitIdx of the frame, most significant bit of each byte first.
FrameBit(combined, bitIdx) == BitOf(combined[(bitIdx \div 8) + 1], 7 - (bitIdx % 8))

\* byte |= bits[i*8 + b] << (7 - b), b = 0..7; a missing element (undefined)
\* shifts to 0.
RECURSIVE ByteFromBits(_, _, _)
ByteFromBits(bits, i, b) ==
  IF b > 7 THEN 0
  ELSE (IF i * 8 + b + 1 <= Len(bits) THEN bits[i * 8 + b + 1] * (2 ^ (7 - b)) ELSE 0)
       + ByteFromBits(bits, i, b + 1)

BytesFromBits(bits, n) == [i \in 1..n |-> ByteFromBits(bits, i - 1, 0)]

\* new DataView(lengthBuffer.buffer).getUint32(0, false)
GetUint32BE(b) == [hi |-> b[1] * 256 + b[2], lo |-> b[3] * 256 + b[4]]

\* ------------------------------------------------------------ pixel engine
\* calculateCapacity(width, height)
\* A variant of calculateCapacity that rounds the byte count up instead of down.
calculateCapacity_ceil(w, h) ==
  LET totalBits == w * h * 3
      availableBytes == ((totalBits + 7) \div 8) - 4
  IN IF availableBytes > 0 THEN availableBytes ELSE 0

calculateCapacity(w, h) ==
  LET totalBits == w * h * 3
      availableBytes == (totalBits \div 8) - 4
  IN IF availableBytes > 0 THEN availableBytes ELSE 0

\* password ? getScatteredIndices(totalPixels, password) : identity
PixelIndices(totalPixels, password) ==
  IF password # <<>> THEN getScatteredIndices(totalPixels, password)
  ELSE Identity(totalPixels)

\* Three bytes per pixel, as if the array had no alpha channel.
CellIndex_packed(pixelIndices, k) == pixelIndices[(k \div 3) + 1] * 3 + (k % 3) + 1

\* Index (from 1) in imageData.data of the cell that is k-th in placement
\* order: channel k % 3 of pixel pixelIndices[k div 3].
CellIndex(pixelIndices, k) == pixelIndices[(k \div 3) + 1] * 4 + (k % 3) + 1

\* The write loop from bitIdx up to totalBitsNeeded - 1: bit bitIdx goes to the
\* bitIdx-th cell in placement order.  The iterations run in increasing order
\* (the lower half of the range, then the upper half, on the array the lower
\* half left; the array keeps its length throughout).
RECURSIVE WriteBits(_, _, _, _, _)
WriteBits(d, combined, pixelIndices, bitIdx, totalBitsNeeded) ==
  IF bitIdx >= totalBitsNeeded \/ bitIdx >= 3 * Len(pixelIndices) THEN d
  ELSE IF totalBitsNeeded - bitIdx = 1
  THEN [d EXCEPT ![CellIndex(pixelIndices, bitIdx)] =
                    SetLsb(@, FrameBit(combined, bitIdx))]
  ELSE LET mid == bitIdx + ((totalBitsNeeded - bitIdx) \div 2)
           lower == WriteBits(d, combined, pixelIndices, bitIdx, mid)
       IN IF Len(lower) = Len(d)
          THEN WriteBits(lower, combined, pixelIndices, mid, totalBitsNeeded)
          ELSE lower

\* encodeMessage with the capacity check after the write loop.
encodeMessage_latecheck(d, payload, password) ==
  LET totalPixels == Len(d) \div 4
      combined == CombinedBytes(payload)
      totalBitsNeeded == Len(combined) * 8
      written == WriteBits(d, combined, PixelIndices(totalPixels, password), 0,
                           totalBitsNeeded)
  IN IF totalBitsNeeded > totalPixels * 3
     THEN [err |-> "capacity", data |-> written]
     ELSE [err |-> "none", data |-> written]

\* encodeMessage(imageData, payload, password): the error thrown and
\* imageData.data as the call leaves it.
encodeMessage(d, payload, password) ==
  LET totalPixels == Len(d) \div 4
      combined == CombinedBytes(payload)
      totalBitsNeeded == Len(combined) * 8
  IN IF totalBitsNeeded > totalPixels * 3
     THEN [err |-> "capacity", data |-> d]
     ELSE [err |-> "none",
           data |-> WriteBits(d, combined, PixelIndices(totalPixels, password), 0,
                              totalBitsNeeded)]

\* The low bits of cells from..from+count-1 in placement order, as far as the
\* carrier has cells (both read loops end with the pixel list).
ReadCells(d, pixelIndices, from, count) ==
  LET cells == 3 * Len(pixelIndices)
      n == IF from + count <= cells THEN count
           ELSE IF cells > from THEN cells - from ELSE 0
  IN [k \in 1..n |-> d[CellIndex(pixelIndices, from + k - 1)] % 2]

\* The length header decodeMessage reads.
DecodedLength(d, password) ==
  LET pixelIndices == PixelIndices(Len(d) \div 4, password)
  IN GetUint32BE(BytesFromBits(ReadCells(d, pixelIndices, 0, 32), 4))

\* decodeMessage that assembles each byte least significant bit first.
decodeMessage_lsbfirst(d, password) ==
  LET totalPixels == Len(d) \div 4
      pixelIndices == PixelIndices(totalPixels, password)
      msgLength == DecodedLength(d, password)
  IN IF U32IsZero(msgLength) \/ U32Gt(msgLength, (totalPixels * 3) \div 8)
     THEN [err |-> "nopayload", bytes |-> <<>>]
     ELSE LET n == U32Small(msgLength)
              bits == ReadCells(d, pixelIndices, 32, n * 8)
          IN [err |-> "none",
              bytes |-> [i \in 1..n |->
                           ByteFromBits([b \in 1..8 |->
                              IF (i - 1) * 8 + 9 - b <= Len(bits)
                              THEN bits[(i - 1) * 8 + 9 - b] ELSE 0], 0, 0)]]

\* decodeMessage(imageData, password): the error thrown, or the bytes returned.
\* msgLength > (totalPixels * 3) / 8 compares an integer with a quotient, so
\* the quotient's floor decides it.
decodeMessage(d, password) ==
  LET totalPixels == Len(d) \div 4
      pixelIndices == PixelIndices(totalPixels, password)
      msgLength == DecodedLength(d, password)
  IN IF U32IsZero(msgLength) \/ U32Gt(msgLength, (totalPixels * 3) \div 8)
     THEN [err |-> "nopayload", bytes |-> <<>>]
     ELSE LET n == U32Small(msgLength)
          IN [err |-> "none",
              bytes |-> BytesFromBits(ReadCells(d, pixelIndices, 32, n * 8), n)]

\* ------------------------------------------------------------- WAV engine
RIFF_ID == 1179011410    \* 0x46464952
WAVE_ID == 1163280727    \* 0x45564157
DATA_ID == 1635017060    \* 0x61746164

\* DataView reads at byte offset off (from 0), little-endian.  A read that
\* does not lie inside the buffer throws a RangeError: InView says whether
\* n bytes at off are inside.
InView(buf, off, n) == off >= 0 /\ off + n <= Len(buf)

GetUint16LE(buf, off) == buf[off + 1] + 256 * buf[off + 2]

GetUint32LE(buf, off) == [hi |-> GetUint16LE(buf, off + 2), lo |-> GetUint16LE(buf, off)]

GetInt16LE(buf, off) ==
  LET u == GetUint16LE(buf, off) IN IF u >= 2 ^ 15 THEN u - 2 ^ 16 ELSE u

\* DataView.setInt16(off, v, true): v is taken modulo 2^16.
SetInt16LE(buf, off, v) ==
  LET u == v % (2 ^ 16)
  IN [buf EXCEPT ![off + 1] = u % 256, ![off + 2] = u \div 256]

\* The chunk walk of parseWavHeader from `offset`: the data offset, or -1
\* when the loop ends without finding a 'data' chunk.  offset + 8 + chunkSize
\* is at least Len(buf) whenever chunkSize exceeds Len(buf).
RECURSIVE FindDataChunk(_, _)
FindDataChunk(buf, offset) ==
  IF ~(offset < Len(buf)) \/ offset + 8 > Len(buf) THEN -1
  ELSE LET chunkId == GetUint32LE(buf, offset)
           chunkSize == GetUint32LE(buf, offset + 4)
       IN IF chunkId = U32(DATA_ID) THEN offset + 8
          ELSE IF U32Gt(chunkSize, Len(buf)) THEN -1
          ELSE FindDataChunk(buf, offset + 8 + U32Small(chunkSize))

\* parseWavHeader(buffer): the error thrown ("range" is the DataView's
\* RangeError) or the WavInfo.
parseWavHeader(buf) ==
  LET fail(e) == [err |-> e, bitsPerSample |-> 0, dataOffset |-> 0]
  IN IF ~InView(buf, 0, 4) THEN fail("range")
     ELSE IF GetUint32LE(buf, 0) # U32(RIFF_ID) THEN fail("notriff")
     ELSE IF ~InView(buf, 8, 4) THEN fail("range")
     ELSE IF GetUint32LE(buf, 8) # U32(WAVE_ID) THEN fail("notwav")
     ELSE IF ~InView(buf, 24, 4) \/ ~InView(buf, 22, 2) \/ ~InView(buf, 34, 2)
          THEN fail("range")
     ELSE LET dataOffset == FindDataChunk(buf, 12)
          IN IF dataOffset < 0 THEN fail("nodata")
             ELSE [err |-> "none", bitsPerSample |-> GetUint16LE(buf, 34),
                   dataOffset |-> dataOffset]

\* calculateAudioCapacity of the 32-bit-header engine:
\* max(0, floor(((byteLength - dataOffset) / 2) / 8) - 4), 0 on any throw.
calculateAudioCapacity(buf) ==
  LET info == parseWavHeader(buf)
      c == ((Len(buf) - info.dataOffset) \div 16) - 4
  IN IF info.err # "none" THEN 0 ELSE IF c > 0 THEN c ELSE 0

\* calculateAudioCapacity of the null-terminator engine (src/utils/audioStego.ts):
\* floor(((byteLength - dataOffset) / 2) / 8) - 1, 0 on any throw.
calculateAudioCapacity_nullterm(buf) ==
  LET info == parseWavHeader(buf)
  IN IF info.err # "none" THEN 0 ELSE ((Len(buf) - info.dataOffset) \div 16) - 1

\* The write loop of encodeAudioLSB from i up to totalBits - 1: bit i goes to
\* sample i.  The iterations run in increasing order (the lower half of the
\* range, then the upper half, on the buffer the lower half left; the buffer
\* keeps its length throughout).
RECURSIVE WriteSamples(_, _, _, _, _)
WriteSamples(buf, combined, dataOffset, i, totalBits) ==
  IF i >= totalBits THEN buf
  ELSE IF totalBits - i = 1
  THEN LET sampleOffset == dataOffset + i * 2
           sample == SetLsb(GetInt16LE(buf, sampleOffset), FrameBit(combined, i))
       IN SetInt16LE(buf, sampleOffset, sample)
  ELSE LET mid == i + ((totalBits - i) \div 2)
           lower == WriteSamples(buf, combined, dataOffset, i, mid)
       IN IF Len(lower) = Len(buf)
          THEN WriteSamples(lower, combined, dataOffset, mid, totalBits)
          ELSE lower

\* encodeAudioLSB(buffer, payload): the error thrown, or the new buffer
\* returned; the caller's buffer is sliced first and never written.
\* totalBits > (byteLength - dataOffset) / 2 is decided on the doubled sides.
encodeAudioLSB(buf, payload) ==
  LET info == parseWavHeader(buf)
      combined == CombinedBytes(payload)
      totalBits == Len(combined) * 8
  IN IF info.err # "none" THEN [err |-> info.err, buffer |-> <<>>]
     ELSE IF info.bitsPerSample # 16 THEN [err |-> "unsupported", buffer |-> <<>>]
     ELSE IF 2 * totalBits > Len(buf) - info.dataOffset
          THEN [err |-> "capacity", buffer |-> <<>>]
     ELSE [err |-> "none",
           buffer |-> WriteSamples(buf, combined, info.dataOffset, 0, totalBits)]

\* The low bits of samples from..from+count-1.
ReadSamples(buf, dataOffset, from, count) ==
  [k \in 1..count |-> GetInt16LE(buf, dataOffset + (from + k - 1) * 2) % 2]

\* decodeAudioLSB(buffer): the error thrown, or the bytes returned.  The
\* header loop reads 32 samples before any check; the first read outside the
\* buffer throws.  payloadLength > (samplesAvailable - 32) / 8 with
\* samplesAvailable = (byteLength - dataOffset) / 2 is decided by the floor
\* of (byteLength - dataOffset - 64) / 16.
decodeAudioLSB(buf) ==
  LET info == parseWavHeader(buf)
  IN IF info.err # "none" THEN [err |-> info.err, bytes |-> <<>>]
     ELSE IF ~InView(buf, info.dataOffset + 31 * 2, 2)
          THEN [err |-> "range", bytes |-> <<>>]
     ELSE LET payloadLength ==
                GetUint32BE(BytesFromBits(ReadSamples(buf, info.dataOffset, 0, 32), 4))
          IN IF \/ U32IsZero(payloadLength)
                \/ U32Gt(payloadLength, (Len(buf) - info.dataOffset - 64) \div 16)
             THEN [err |-> "nopayload", bytes |-> <<>>]
             ELSE LET n == U32Small(payloadLength)
                  IN [err |-> "none",
                      bytes |-> BytesFromBits(
                                  ReadSamples(buf, info.dataOffset, 32, n * 8), n)]

\* --------------------------------------------------------------- envelope
SALT_SIZE == 16
IV_SIZE == 12
\* AES-GCM appends a 128-bit tag (no tagLength is given).
GcmTagBytes == 16
\* Block size of HMAC-SHA-256, the PRF of the PBKDF2 derivation.
HmacBlockBytes == 64

NoKey == [material |-> <<>>, salt |-> <<>>]
NoSeal == [key |-> NoKey, iv |-> <<>>, ciphertext |-> <<>>]

\* new TextEncoder().encode(s), for code units below 0x800.
RECURSIVE Utf8(_)
Utf8(s) ==
  IF s = <<>> THEN <<>>
  ELSE (IF Head(s) < 128 THEN <<Head(s)>>
        ELSE <<192 + (Head(s) \div 64), 128 + (Head(s) % 64)>>) \o Utf8(Tail(s))

\* HMAC's key block: a key of at most one block is padded with zero bytes to
\* the block size (a longer key is hashed first; the passwords offered here
\* are shorter).
HmacKeyBlock(k) == k \o [i \in 1..(HmacBlockBytes - Len(k)) |-> 0]

\* A derivation that ignores the salt.
deriveKey_nosalt(password, salt) ==
  [material |-> HmacKeyBlock(Utf8(password)), salt |-> <<>>]

\* deriveKey(password, salt): PBKDF2-HMAC-SHA-256 into an AES-256-GCM key.
\* The derived key is taken to be a different one for each (HMAC key block,
\* salt), and is written as that pair.
deriveKey(password, salt) ==
  [material |-> HmacKeyBlock(Utf8(password)), salt |-> salt]

\* The cipher's bytes.  AES-GCM is taken as an ideal authenticated cipher: its
\* output is some byte string of len + 16 bytes from which the key and nonce
\* recover the plaintext, and decryption accepts exactly what encryption
\* produced under the same key and nonce (gcmSealed).  The bytes themselves
\* are a stand-in: a keyed additive pad and a keyed checksum.
GcmPad(key, iv, i) ==
  (SumCodes(key.material) + SumCodes(key.salt) + SumCodes(iv) + 7 * i) % 256

AesGcmEncrypt(key, iv, payload) ==
  LET body == [i \in 1..Len(payload) |-> (payload[i] + GcmPad(key, iv, i)) % 256]
  IN body \o [j \in 1..GcmTagBytes |-> (SumCodes(body) + GcmPad(key, iv, 100 + j)) % 256]

AesGcmDecrypt(key, iv, ciphertext) ==
  IF gcmSealed # NoSeal /\ gcmSealed = [key |-> key, iv |-> iv, ciphertext |-> ciphertext]
  THEN [err |-> "none",
        bytes |-> [i \in 1..(Len(ciphertext) - GcmTagBytes) |->
                     (ciphertext[i] - GcmPad(key, iv, i)) % 256]]
  ELSE [err |-> "OperationError", bytes |-> <<>>]

\* TypedArray.prototype.slice(from, to): clamped to the array.
Slice(a, from, to) ==
  SubSeq(a, from + 1, IF to < Len(a) THEN to ELSE Len(a))

\* encryptData(data, password) for a Uint8Array payload, with the salt and iv
\* that crypto.getRandomValues produced: combined.set(salt, 0),
\* combined.set(iv, SALT_SIZE), combined.set(ciphertext, SALT_SIZE + IV_SIZE).
\* The nonce is laid down before the salt.
encryptData_ivfirst(payload, password, salt, iv) ==
  iv \o salt \o AesGcmEncrypt(deriveKey(password, salt), iv, payload)

encryptData(payload, password, salt, iv) ==
  LET ciphertext == AesGcmEncrypt(deriveKey(password, salt), iv, payload)
  IN [p \in 1..(SALT_SIZE + IV_SIZE + Len(ciphertext)) |->
        IF p <= SALT_SIZE THEN salt[p]
        ELSE IF p <= SALT_SIZE + IV_SIZE THEN iv[p - SALT_SIZE]
        ELSE ciphertext[p - SALT_SIZE - IV_SIZE]]

\* decryptData without its try/catch: what is thrown inside reaches the caller.
decryptData_nocatch(combined, password) ==
  LET salt == Slice(combined, 0, SALT_SIZE)
      iv == Slice(combined, SALT_SIZE, SALT_SIZE + IV_SIZE)
      ciphertext == Slice(combined, SALT_SIZE + IV_SIZE, Len(combined))
  IN AesGcmDecrypt(deriveKey(password, salt), iv, ciphertext)

\* decryptData(combined, password): every throw inside is caught and
\* rethrown as the one 'Decryption failed' error.
decryptData(combined, password) ==
  LET salt == Slice(combined, 0, SALT_SIZE)
      iv == Slice(combined, SALT_SIZE, SALT_SIZE + IV_SIZE)
      ciphertext == Slice(combined, SALT_SIZE + IV_SIZE, Len(combined))
      decrypted == AesGcmDecrypt(deriveKey(password, salt), iv, ciphertext)
  IN IF decrypted.err # "none" THEN [err |-> "decryptfailed", bytes |-> <<>>]
     ELSE [err |-> "none", bytes |-> decrypted.bytes]

\* ---------------------------------------------------- scatterer on its own
NoCall == [n |-> -1, seed |-> <<>>, indices |-> <<>>]

ScatterIdle ==
  /\ rngState = NoRng
  /\ scatterCall = NoCall
  /\ scatterPrev = NoCall

CodecIdle ==
  /\ modality = "none" /\ width = 0 /\ height = 0 /\ data = <<>>
  /\ wav = <<>> /\ stego = <<>> /\ op = "load" /\ opErr = "none"
  /\ before = <<>> /\ inPayload = <<>> /\ inPassword = <<>>
  /\ decPassword = <<>> /\ decSource = "carrier" /\ encoded = "no" /\ out = <<>>

CryptoIdle ==
  /\ phase = "idle" /\ sealPayload = <<>> /\ sealPassword = <<>> /\ blob = <<>>
  /\ gcmSealed = NoSeal /\ tamperedAt = 0 /\ openPassword = <<>>
  /\ opened = [err |-> "none", bytes |-> <<>>]

NoDraw == [i |-> 0, j |-> 0]

GenIdle == lcgFrom = NoRng /\ lcgWide = <<>> /\ drawn = NoDraw /\ rngSteps = 0

NoCapacity == [called |-> FALSE, current |-> 0, legacy |-> 0]

WalkIdle ==
  /\ walkPhase = "idle" /\ walkErr = "none" /\ walkOffset = U32(0)
  /\ walkRead = -1 /\ walkData = -1 /\ capReturned = NoCapacity

NoResult == [type |-> "none", text |-> "", raw |-> <<>>]
NoSecret == [type |-> "text", chosen |-> FALSE, bytes |-> <<>>]
NoFile == [type |-> "none", w |-> 0, h |-> 0, bytes |-> <<>>]
NoBytes == [set |-> FALSE, bytes |-> <<>>]
NoRun == [err |-> "none", image |-> <<>>, decoded |-> NoBytes, checked |-> FALSE]
NoTkOp == [stage |-> "none", mode |-> "encode", image |-> NoFile, message |-> <<>>,
           capacity |-> 0, resets |-> 0, run |-> NoRun]
NoCheck == [made |-> FALSE, capacity |-> 0, state |-> 0, len |-> 0, w |-> 0, h |-> 0,
            rejected |-> FALSE]

TkIdle ==
  /\ tkImage = NoFile /\ tkCapacity = 0 /\ tkMode = "encode" /\ tkMessage = <<>>
  /\ tkResultImage = <<>> /\ tkDecoded = NoBytes /\ tkError = "none"
  /\ tkIsProcessing = FALSE /\ tkProgress = 0 /\ tkLoads = {} /\ tkOp = NoTkOp
  /\ tkInterval = FALSE /\ tkChecked = NoCheck /\ tkDone = "none" /\ tkResets = 0
  /\ tkStored = FALSE /\ tkEvents = 0

NoPending == [kind |-> "none", modality |-> "image", image |-> <<>>, audioBuffer |-> <<>>,
              secret |-> NoSecret, password |-> <<>>, resets |-> 0,
              run |-> [calls |-> <<>>, stegoImage |-> <<>>, stegoAudio |-> <<>>,
                       result |-> NoResult]]
NoFinished == [n |-> 0, kind |-> "none", calls |-> <<>>]

AsyncIdle ==
  /\ isProcessing = FALSE /\ capacity = 0 /\ rawName = NoFile /\ metadata = NoFile
  /\ loads = {} /\ pending = NoPending /\ finished = NoFinished /\ lastFile = NoFile
  /\ resets = 0 /\ storedLate = FALSE /\ activeTab = "encode" /\ uiEvents = 0



\* The application as constructed: image modality, nothing loaded or typed.
AppIdle ==
  /\ rawFile = FALSE /\ stegoImage = <<>> /\ passwordField = <<>> /\ secret = NoSecret
  /\ handled = "none" /\ calls = <<>> /\ result = NoResult /\ handlerRuns = 0

\* ------------------------------------------------------- carriers offered
Fills == {"zeros", "ones", "mixed"}

\* A carrier's content: a fill, and for planted > 0 the big-endian length
\* value `planted` in the low bits of its first 32 cells (a carrier somebody
\* else wrote a header into).
Kinds == {[fill |-> f, planted |-> 0] : f \in Fills}
         \cup {[fill |-> "mixed", planted |-> h] : h \in 1..MaxCraftLen}

Plant(v, kind, cell) ==
  IF kind.planted > 0 /\ cell < 32
  THEN (v - (v % 2)) + BitOf(Uint32BE(kind.planted)[(cell \div 8) + 1], 7 - (cell % 8))
  ELSE v

\* imageData.data of a w x h image: byte i (from 0) is channel i % 4 of
\* pixel i div 4.
ImageData(w, h, kind) ==
  [p \in 1..(4 * w * h) |->
     LET i == p - 1
         v == CASE kind.fill = "zeros" -> 0
                [] kind.fill = "ones" -> 255
                [] OTHER -> (i * 37 + 11) % 256
     IN IF i % 4 = 3 THEN v ELSE Plant(v, kind, 3 * (i \div 4) + (i % 4))]

SampleTable == << -32768, 32767, -1, 0, 1, -2, 255, -256 >>

SampleValue(kind, k) ==
  Plant(CASE kind.fill = "zeros" -> 0
          [] kind.fill = "ones" -> -1
          [] OTHER -> SampleTable[(k % 8) + 1], kind, k)

Uint32LE(n) ==
  << n % 256, (n \div (2 ^ 8)) % 256, (n \div (2 ^ 16)) % 256, (n \div (2 ^ 24)) % 256 >>

\* A canonical 44-byte RIFF/WAVE header: 'fmt ' chunk of 16 bytes, then 'data'.
WavHeader(bitsPerSample, dataLen) ==
  <<82, 73, 70, 70>> \o Uint32LE(36 + dataLen) \o <<87, 65, 86, 69>>
  \o <<102, 109, 116, 32>> \o Uint32LE(16) \o <<1, 0>> \o <<1, 0>>
  \o Uint32LE(44100) \o Uint32LE(88200) \o <<2, 0>> \o <<bitsPerSample, 0>>
  \o <<100, 97, 116, 97>> \o Uint32LE(dataLen)

\* A WAV file of n samples; odd = 1 leaves one stray byte after the last sample.
MakeWav(bitsPerSample, n, kind, odd) ==
  WavHeader(bitsPerSample, 2 * n + odd)
  \o [p \in 1..(2 * n + odd) |->
        LET k == (p - 1) \div 2
            u == SampleValue(kind, k) % (2 ^ 16)
        IN IF p > 2 * n THEN 0
           ELSE IF p % 2 = 1 THEN u % 256 ELSE u \div 256]

SampleCounts == {n \in 0..MaxSamples : n % 8 \in {0, 1, 7}}

Wavs == {MakeWav(16, n, kind, odd) : n \in SampleCounts, kind \in Kinds, odd \in {0, 1}}
        \cup {MakeWav(8, n, [fill |-> "mixed", planted |-> h], 0) :
                 n \in SampleCounts, h \in {0, 1}}

\* Payloads offered to the encoders.
PayloadByte(pat, i) == IF pat = 0 THEN (IF i % 2 = 1 THEN 0 ELSE 255) ELSE (i * 73 + 41) % 256

Payloads == {[i \in 1..len |-> PayloadByte(pat, i)] : len \in 0..MaxPayloadLen, pat \in {0, 1}}

\* ------------------------------------------------------------------ codec
\* A carrier has been loaded; nothing has run on it yet.
InitCodec ==
  /\ ScatterIdle /\ CryptoIdle /\ AppIdle /\ GenIdle /\ WalkIdle /\ TkIdle /\ AsyncIdle
  /\ stego = <<>> /\ op = "load" /\ opErr = "none" /\ before = <<>>
  /\ inPayload = <<>> /\ inPassword = <<>> /\ decPassword = <<>>
  /\ decSource = "carrier" /\ encoded = "no" /\ out = <<>>
  /\ \/ /\ modality = "image"
        /\ \E w \in 1..MaxW, h \in 1..MaxH, kind \in Kinds :
             width = w /\ height = h /\ data = ImageData(w, h, kind)
        /\ wav = <<>>
     \/ /\ modality = "audio"
        /\ width = 0 /\ height = 0 /\ data = <<>>
        /\ wav \in Wavs

\* encodeMessage(imageData, payload, password) on the loaded image.
EncodeImage ==
  /\ modality = "image" /\ op = "load"
  /\ \E payload \in Payloads, password \in Seeds :
       LET r == encodeMessage(data, payload, password)
       IN /\ data' = r.data
          /\ opErr' = r.err
          /\ inPayload' = payload
          /\ inPassword' = password
          /\ encoded' = IF r.err = "none" THEN "ok" ELSE "failed"
          /\ rngState' = IF r.err = "none"
                         THEN ScatterFinalState(Len(data) \div 4, password)
                         ELSE rngState
  /\ op' = "encode"
  /\ before' = data
  /\ UNCHANGED <<scatterCall, scatterPrev, modality, width, height, wav, stego,
                 decPassword, decSource, out, cryptoVars, appVars, genVars, walkVars, tkVars, asyncVars>>

\* A decode that clears the low bit of every byte it has read the header from.
DecodeImage_consuming ==
  /\ modality = "image" /\ op \in {"load", "encode"}
  /\ \E password \in Seeds :
       LET r == decodeMessage(data, password)
       IN /\ opErr' = r.err
          /\ out' = r.bytes
          /\ decPassword' = password
          /\ rngState' = ScatterFinalState(Len(data) \div 4, password)
  /\ data' = [p \in 1..Len(data) |-> IF p <= 43 /\ p % 4 # 0 THEN SetLsb(data[p], 0)
                                      ELSE data[p]]
  /\ op' = "decode"
  /\ before' = data
  /\ UNCHANGED <<scatterCall, scatterPrev, modality, width, height, wav, stego,
                 inPayload, inPassword, decSource, encoded, cryptoVars, appVars, genVars, walkVars, tkVars, asyncVars>>

\* decodeMessage(imageData, password) on the image as it is.
DecodeImage ==
  /\ modality = "image" /\ op \in {"load", "encode"}
  /\ \E password \in Seeds :
       LET r == decodeMessage(data, password)
       IN /\ opErr' = r.err
          /\ out' = r.bytes
          /\ decPassword' = password
          /\ rngState' = ScatterFinalState(Len(data) \div 4, password)
  /\ op' = "decode"
  /\ before' = data
  /\ UNCHANGED <<scatterCall, scatterPrev, modality, width, height, data, wav, stego,
                 inPayload, inPassword, decSource, encoded, cryptoVars, appVars, genVars, walkVars, tkVars, asyncVars>>

\* encodeAudioLSB(buffer, payload) on the loaded WAV buffer.
EncodeAudio ==
  /\ modality = "audio" /\ op = "load"
  /\ \E payload \in Payloads :
       LET r == encodeAudioLSB(wav, payload)
       IN /\ stego' = r.buffer
          /\ opErr' = r.err
          /\ inPayload' = payload
          /\ encoded' = IF r.err = "none" THEN "ok" ELSE "failed"
  /\ op' = "encode"
  /\ before' = wav
  /\ UNCHANGED <<scatterVars, modality, width, height, data, wav, inPassword,
                 decPassword, decSource, out, cryptoVars, appVars, genVars, walkVars, tkVars, asyncVars>>

\* decodeAudioLSB(buffer) on the loaded buffer, or on the buffer the encode
\* returned.
DecodeAudio ==
  /\ modality = "audio" /\ op \in {"load", "encode"}
  /\ \E src \in {"carrier", "stego"} :
       /\ src = "stego" => (op = "encode" /\ opErr = "none")
       /\ LET buf == IF src = "stego" THEN stego ELSE wav
              r == decodeAudioLSB(buf)
          IN /\ opErr' = r.err
             /\ out' = r.bytes
             /\ before' = buf
       /\ decSource' = src
  /\ op' = "decode"
  /\ UNCHANGED <<scatterVars, modality, width, height, data, wav, stego,
                 inPayload, inPassword, decPassword, encoded, cryptoVars, appVars, genVars, walkVars, tkVars, asyncVars>>

Next == EncodeImage \/ DecodeImage \/ EncodeAudio \/ DecodeAudio

Spec == InitCodec /\ [][Next]_vars

\* ------------------------------------------------- one sample on its own
\* Every 16-bit sample, as the two bytes a little-endian DataView holds.
SampleBuffers == {<<u % 256, u \div 256>> : u \in 0..(2 ^ 16 - 1)}

\* A WAV file has been loaded, or wav holds one sample.
InitSample ==
  /\ ScatterIdle /\ CryptoIdle /\ AppIdle /\ GenIdle /\ WalkIdle /\ TkIdle /\ AsyncIdle
  /\ width = 0 /\ height = 0 /\ data = <<>>
  /\ stego = <<>> /\ op = "load" /\ opErr = "none" /\ before = <<>>
  /\ inPayload = <<>> /\ inPassword = <<>> /\ decPassword = <<>>
  /\ decSource = "carrier" /\ encoded = "no" /\ out = <<>>
  /\ \/ modality = "sample" /\ wav \in SampleBuffers
     \/ modality = "audio" /\ wav \in Wavs

\* One iteration of the write loop of encodeAudioLSB on that sample:
\* sample = view.getInt16(0, true); sample = (sample & ~1) | bit;
\* view.setInt16(0, sample, true).  inPayload records the bit.
WriteSample ==
  /\ modality = "sample" /\ op = "load"
  /\ \E bit \in {0, 1} :
       /\ stego' = SetInt16LE(wav, 0, SetLsb(GetInt16LE(wav, 0), bit))
       /\ inPayload' = <<bit>>
  /\ op' = "encode" /\ opErr' = "none" /\ encoded' = "ok"
  /\ before' = wav
  /\ UNCHANGED <<scatterVars, modality, width, height, data, wav, inPassword,
                 decPassword, decSource, out, cryptoVars, appVars, genVars, walkVars, tkVars, asyncVars>>

NextSample == WriteSample \/ EncodeAudio

SpecSample == InitSample /\ [][NextSample]_vars

\* ------------------------------------------------ WAV parsing on its own
\* Buffers handed to parseWavHeader besides well-formed files.  A chunk is its
\* four-character id, its declared size and the bytes that follow.
Ascii4(a, b, c, d) == <<a, b, c, d>>

Chunk(id, declared, body) == id \o declared \o body

Riff(riff, wave, tail) == riff \o Uint32LE(4 + Len(tail)) \o wave \o tail

Zeros(n) == [i \in 1..n |-> 0]

FmtBody == <<1, 0>> \o <<1, 0>> \o Uint32LE(44100) \o Uint32LE(88200) \o <<2, 0>> \o <<16, 0>>

RawTails ==
  LET fmt == Ascii4(102, 109, 116, 32)
      dataId == Ascii4(100, 97, 116, 97)
      list == Ascii4(76, 73, 83, 84)
      fmtChunk == Chunk(fmt, Uint32LE(16), FmtBody)
  IN { <<>>,
       \* the fmt chunk and nothing after it
       fmtChunk,
       \* a LIST chunk between fmt and data
       fmtChunk \o Chunk(list, Uint32LE(4), Zeros(4)) \o Chunk(dataId, Uint32LE(4), Zeros(4)),
       \* a chunk of declared size 0, then data
       fmtChunk \o Chunk(list, Uint32LE(0), <<>>) \o Chunk(dataId, Uint32LE(34), Zeros(34)),
       \* a chunk of odd declared size
       fmtChunk \o Chunk(list, Uint32LE(3), Zeros(3)) \o Chunk(dataId, Uint32LE(2), Zeros(2)),
       \* a declared size that runs past the buffer
       fmtChunk \o Chunk(list, Uint32LE(200), Zeros(4)) \o Chunk(dataId, Uint32LE(2), Zeros(2)),
       \* a declared size of 2^32 - 1
       fmtChunk \o Chunk(list, <<255, 255, 255, 255>>, Zeros(4)) \o Chunk(dataId, Uint32LE(2), Zeros(2)),
       \* a fmt chunk that declares size 0: its body is walked as chunk headers
       Chunk(fmt, Uint32LE(0), FmtBody) \o Chunk(dataId, Uint32LE(2), Zeros(2)),
       \* the buffer ends inside a chunk header
       fmtChunk \o dataId,
       fmtChunk \o Chunk(list, Uint32LE(4), Zeros(4)) \o dataId \o <<2, 0, 0>>,
       \* the data header is the last thing in the buffer
       fmtChunk \o Chunk(list, Uint32LE(4), Zeros(4)) \o Chunk(dataId, Uint32LE(0), <<>>),
       \* data comes first
       Chunk(dataId, Uint32LE(16), FmtBody),
       Chunk(dataId, Uint32LE(2), <<0, 0>>),
       \* a run of empty chunks
       fmtChunk \o Chunk(list, Uint32LE(0), <<>>) \o Chunk(list, Uint32LE(0), <<>>)
         \o Chunk(list, Uint32LE(0), <<>>) \o Chunk(dataId, Uint32LE(0), <<>>) }

RawBuffers ==
  LET riff == Ascii4(82, 73, 70, 70)
      wave == Ascii4(87, 65, 86, 69)
  IN { <<>>, <<82, 73, 70>>, riff, riff \o Uint32LE(4),
       riff \o Uint32LE(4) \o <<87, 65, 86>> }
     \cup {Riff(riff, wave, tail) : tail \in RawTails}
     \cup {Riff(Ascii4(82, 73, 70, 88), wave, tail) : tail \in RawTails}
     \cup {Riff(riff, Ascii4(87, 65, 86, 88), tail) : tail \in RawTails}

\* offset + 8 + chunkSize for a 32-bit chunkSize: below 2^33.
OffsetAdd_bodyonly(offset, chunkSize) ==
  LET lo == offset.lo + chunkSize.lo
  IN [hi |-> offset.hi + chunkSize.hi + (lo \div Half), lo |-> lo % Half]

OffsetAdd(offset, chunkSize) ==
  LET lo == offset.lo + 8 + chunkSize.lo
  IN [hi |-> offset.hi + chunkSize.hi + (lo \div Half), lo |-> lo % Half]

\* offset < n for a byte length n.
OffsetLess(offset, n) == offset.hi < 2 ^ 14 /\ offset.hi * Half + offset.lo < n

InitWav ==
  /\ ScatterIdle /\ CryptoIdle /\ AppIdle /\ GenIdle /\ WalkIdle /\ TkIdle /\ AsyncIdle
  /\ modality = "audio" /\ width = 0 /\ height = 0 /\ data = <<>>
  /\ stego = <<>> /\ op = "load" /\ opErr = "none" /\ before = <<>>
  /\ inPayload = <<>> /\ inPassword = <<>> /\ decPassword = <<>>
  /\ decSource = "carrier" /\ encoded = "no" /\ out = <<>>
  /\ wav \in RawBuffers \cup Wavs

\* parseWavHeader up to its loop: the two id checks and the three field reads.
WalkStart ==
  /\ walkPhase = "idle"
  /\ LET err == IF ~InView(wav, 0, 4) THEN "range"
                ELSE IF GetUint32LE(wav, 0) # U32(RIFF_ID) THEN "notriff"
                ELSE IF ~InView(wav, 8, 4) THEN "range"
                ELSE IF GetUint32LE(wav, 8) # U32(WAVE_ID) THEN "notwav"
                ELSE IF ~InView(wav, 24, 4) \/ ~InView(wav, 22, 2) \/ ~InView(wav, 34, 2)
                     THEN "range"
                ELSE "none"
     IN /\ walkErr' = err
        /\ walkPhase' = IF err = "none" THEN "loop" ELSE "threw"
        /\ walkOffset' = IF err = "none" THEN U32(12) ELSE walkOffset
  /\ UNCHANGED <<walkRead, walkData, capReturned, scatterVars, codecVars, cryptoVars,
                 appVars, genVars, tkVars, asyncVars>>

\* One test of the loop condition and, when it holds, one run of the loop body.
WalkStep ==
  /\ walkPhase = "loop"
  /\ IF ~OffsetLess(walkOffset, Len(wav)) \/ U32Small(walkOffset) + 8 > Len(wav)
     THEN /\ walkPhase' = "threw" /\ walkErr' = "nodata"
          /\ UNCHANGED <<walkOffset, walkRead, walkData>>
     ELSE LET offset == U32Small(walkOffset)
              chunkId == GetUint32LE(wav, offset)
              chunkSize == GetUint32LE(wav, offset + 4)
          IN /\ walkRead' = offset
             /\ IF chunkId = U32(DATA_ID)
                THEN /\ walkPhase' = "returned" /\ walkData' = offset + 8
                     /\ UNCHANGED <<walkOffset, walkErr>>
                ELSE /\ walkOffset' = OffsetAdd(walkOffset, chunkSize)
                     /\ UNCHANGED <<walkPhase, walkErr, walkData>>
  /\ UNCHANGED <<capReturned, scatterVars, codecVars, cryptoVars, appVars, genVars, tkVars, asyncVars>>

\* calculateAudioCapacity(buffer) of both engines.
CalcCapacity ==
  /\ ~capReturned.called
  /\ capReturned' = [called |-> TRUE, current |-> calculateAudioCapacity(wav),
                     legacy |-> calculateAudioCapacity_nullterm(wav)]
  /\ UNCHANGED <<walkPhase, walkErr, walkOffset, walkRead, walkData, scatterVars,
                 codecVars, cryptoVars, appVars, genVars, tkVars, asyncVars>>

ParseStep == WalkStart \/ WalkStep

NextWav == WalkStart \/ WalkStep \/ CalcCapacity

\* parseWavHeader is synchronous: once called it keeps running.
SpecWav == InitWav /\ [][NextWav]_vars /\ WF_vars(ParseStep)

InitScatter == ScatterIdle /\ CodecIdle /\ CryptoIdle /\ AppIdle /\ GenIdle /\ WalkIdle /\ TkIdle /\ AsyncIdle

\* One call of getScatteredIndices(n, seed).
CallScatter ==
  \E n \in 0..MaxN, seed \in Seeds :
    /\ scatterPrev' = scatterCall
    /\ scatterCall' = [n |-> n, seed |-> seed, indices |-> getScatteredIndices(n, seed)]
    /\ rngState' = ScatterFinalState(n, seed)
    /\ UNCHANGED <<codecVars, cryptoVars, appVars, genVars, walkVars, tkVars, asyncVars>>

NextScatter == CallScatter

SpecScatter == InitScatter /\ [][NextScatter]_vars

\* --------------------------------------------------- generator on its own
\* States a generator can be in: the recurrence has full period, so every
\* value of [0, 2^32) is one.  Those offered have every pair of these halves.
RngHalves == {0, 1, 2, 255, 256, 26125, 32767, 32768, 40503, 65534, 65535}

RngStates == {[hi |-> h, lo |-> l] : h \in RngHalves, l \in RngHalves}

\* The loop index i of a draw, for arrays of up to 2^15 elements.
DrawIndices == {1, 2, 3, 7, 135, 32767}

InitRng ==
  /\ CodecIdle /\ CryptoIdle /\ AppIdle
  /\ scatterCall = NoCall /\ scatterPrev = NoCall
  /\ rngState \in RngStates
  /\ GenIdle /\ WalkIdle /\ TkIdle /\ AsyncIdle

\* const j = Math.floor(rng.next() * (i + 1)) at loop index i.
RngDraw ==
  /\ rngSteps < MaxRngSteps
  /\ \E i \in DrawIndices :
       drawn' = [i |-> i, j |-> Draw(NextInDoubles(rngState), i)]
  /\ lcgFrom' = rngState
  /\ lcgWide' = ToDouble(LcgWide(rngState))
  /\ rngState' = NextInDoubles(rngState)
  /\ rngSteps' = rngSteps + 1
  /\ UNCHANGED <<scatterCall, scatterPrev, codecVars, cryptoVars, appVars, walkVars, tkVars, asyncVars>>

NextRng == RngDraw

SpecRng == InitRng /\ [][NextRng]_vars

\* ---------------------------------------------------- envelope on its own
Passwords == { <<97>>, <<97, 0>>, <<112, 119>>, <<233>> }

\* What crypto.getRandomValues may return, two values of each.
Salts == { [i \in 1..SALT_SIZE |-> 0], [i \in 1..SALT_SIZE |-> (i * 29 + 3) % 256] }
Ivs == { [i \in 1..IV_SIZE |-> 255], [i \in 1..IV_SIZE |-> i] }

\* By how much a corrupted byte differs from the original (mod 256).
Deltas == {1, 255}

InitCrypto == ScatterIdle /\ CodecIdle /\ CryptoIdle /\ AppIdle /\ GenIdle /\ WalkIdle /\ TkIdle /\ AsyncIdle

\* encryptData(payload, password)
Seal ==
  /\ phase = "idle"
  /\ \E payload \in Payloads, password \in Passwords, salt \in Salts, iv \in Ivs :
       /\ sealPayload' = payload
       /\ sealPassword' = password
       /\ blob' = encryptData(payload, password, salt, iv)
       /\ gcmSealed' = [key |-> deriveKey(password, salt), iv |-> iv,
                        ciphertext |-> AesGcmEncrypt(deriveKey(password, salt), iv, payload)]
  /\ phase' = "sealed"
  /\ UNCHANGED <<tamperedAt, openPassword, opened, scatterVars, codecVars, appVars, genVars, walkVars, tkVars, asyncVars>>

\* One byte of the sealed blob is changed before it is opened.
Tamper ==
  /\ phase = "sealed" /\ tamperedAt = 0
  /\ \E i \in 1..Len(blob), delta \in Deltas :
       /\ blob' = [blob EXCEPT ![i] = (@ + delta) % 256]
       /\ tamperedAt' = i
  /\ UNCHANGED <<phase, sealPayload, sealPassword, gcmSealed, openPassword, opened,
                 scatterVars, codecVars, appVars, genVars, walkVars, tkVars, asyncVars>>

\* Lengths a blob is cut down to before it is opened: nothing, less than the
\* salt, the salt alone, less than salt + nonce, salt + nonce alone, and a
\* ciphertext shorter than the tag.
CutLengths == {0, SALT_SIZE - 1, SALT_SIZE, SALT_SIZE + IV_SIZE - 1, SALT_SIZE + IV_SIZE,
               SALT_SIZE + IV_SIZE + GcmTagBytes - 1}

\* The sealed blob loses its tail before it is opened.
Truncate ==
  /\ phase = "sealed" /\ tamperedAt = 0
  /\ \E n \in CutLengths :
       /\ n < Len(blob)
       /\ blob' = Slice(blob, 0, n)
       /\ tamperedAt' = n + 1
  /\ UNCHANGED <<phase, sealPayload, sealPassword, gcmSealed, openPassword, opened,
                 scatterVars, codecVars, appVars, genVars, walkVars, tkVars, asyncVars>>

\* decryptData(blob, password)
Open ==
  /\ phase = "sealed"
  /\ \E password \in Passwords :
       /\ openPassword' = password
       /\ opened' = decryptData(blob, password)
  /\ phase' = "opened"
  /\ UNCHANGED <<sealPayload, sealPassword, blob, gcmSealed, tamperedAt,
                 scatterVars, codecVars, appVars, genVars, walkVars, tkVars, asyncVars>>

NextCrypto == Seal \/ Tamper \/ Truncate \/ Open

SpecCrypto == InitCrypto /\ [][NextCrypto]_vars

\* ------------------------------------------------------------ application
\* One codec or envelope call as a handler made it: the function, its payload
\* or carrier argument, its password argument (<<>> where it takes none), the
\* error it threw and what it returned.
Call(fn, arg, pw, err, returned) ==
  [fn |-> fn, data |-> arg, password |-> pw, err |-> err, returned |-> returned]

\* handleEncode that seals the payload but frames the unsealed bytes.
handleEncode_rawframe(mod, img, buf, sec, pw, salt, iv) ==
  LET sealed == IF pw # <<>> THEN encryptData(sec.bytes, pw, salt, iv) ELSE sec.bytes
      finalPayload == sec.bytes
      c1 == IF pw # <<>> THEN <<Call("encryptData", sec.bytes, pw, "none", sealed)>>
            ELSE <<>>
  IN IF mod = "image" /\ img # <<>>
     THEN LET r == encodeMessage(img, finalPayload, pw)
          IN [calls |-> c1 \o <<Call("encodeMessage", finalPayload, pw, r.err,
                                      IF r.err = "none" THEN r.data ELSE <<>>)>>,
              stegoImage |-> IF r.err = "none" THEN r.data ELSE <<>>,
              stegoAudio |-> <<>>,
              result |-> IF r.err = "none"
                         THEN [type |-> "success", text |-> "hidden", raw |-> <<>>]
                         ELSE [type |-> "error", text |-> r.err, raw |-> <<>>]]
     ELSE [calls |-> c1, stegoImage |-> <<>>, stegoAudio |-> <<>>, result |-> NoResult]

\* handleEncode past its two early returns, with the state its closure holds
\* (modality, image, audioBuffer, payload, password) and the salt and iv that
\* encryptData draws: the calls made in order, the stegoImage / stegoAudio it
\* sets (<<>>: not set) and the result it sets (NoResult: left null).
handleEncode(mod, img, buf, sec, pw, salt, iv) ==
  LET finalPayload == IF pw # <<>> THEN encryptData(sec.bytes, pw, salt, iv)
                      ELSE sec.bytes
      c1 == IF pw # <<>> THEN <<Call("encryptData", sec.bytes, pw, "none", finalPayload)>>
            ELSE <<>>
  IN IF mod = "image" /\ img # <<>>
     THEN LET r == encodeMessage(img, finalPayload, pw)
          IN [calls |-> c1 \o <<Call("encodeMessage", finalPayload, pw, r.err,
                                      IF r.err = "none" THEN r.data ELSE <<>>)>>,
              stegoImage |-> IF r.err = "none" THEN r.data ELSE <<>>,
              stegoAudio |-> <<>>,
              result |-> IF r.err = "none"
                         THEN [type |-> "success", text |-> "hidden", raw |-> <<>>]
                         ELSE [type |-> "error", text |-> r.err, raw |-> <<>>]]
     ELSE IF mod = "audio" /\ buf # <<>>
     THEN LET r == encodeAudioLSB(buf, finalPayload)
          IN [calls |-> c1 \o <<Call("encodeAudioLSB", finalPayload, <<>>, r.err, r.buffer)>>,
              stegoImage |-> <<>>,
              stegoAudio |-> r.buffer,
              result |-> IF r.err = "none"
                         THEN [type |-> "success", text |-> "hidden", raw |-> <<>>]
                         ELSE [type |-> "error", text |-> r.err, raw |-> <<>>]]
     ELSE [calls |-> c1, stegoImage |-> <<>>, stegoAudio |-> <<>>, result |-> NoResult]

\* handleDecode that shows the bytes as extracted when they cannot be opened.
handleDecode_lenient(mod, img, buf, pw) ==
  LET fn == IF mod = "image" /\ img # <<>> THEN "decodeMessage"
            ELSE IF mod = "audio" /\ buf # <<>> THEN "decodeAudioLSB" ELSE "none"
      d == IF fn = "decodeMessage" THEN decodeMessage(img, pw)
           ELSE IF fn = "decodeAudioLSB" THEN decodeAudioLSB(buf)
           ELSE [err |-> "nocarrier", bytes |-> <<>>]
      c1 == IF fn = "decodeMessage" THEN <<Call(fn, img, pw, d.err, d.bytes)>>
            ELSE IF fn = "decodeAudioLSB" THEN <<Call(fn, buf, <<>>, d.err, d.bytes)>>
            ELSE <<>>
  IN IF d.err # "none"
     THEN [calls |-> c1, result |-> [type |-> "error", text |-> d.err, raw |-> <<>>]]
     ELSE IF pw # <<>>
     THEN LET o == decryptData(d.bytes, pw)
          IN [calls |-> c1 \o <<Call("decryptData", d.bytes, pw, o.err, o.bytes)>>,
              result |-> IF o.err = "none"
                         THEN [type |-> "success", text |-> "decoded", raw |-> o.bytes]
                         ELSE [type |-> "success", text |-> "decoded", raw |-> d.bytes]]
     ELSE [calls |-> c1, result |-> [type |-> "success", text |-> "decoded", raw |-> d.bytes]]

\* handleDecode with the state its closure holds: the calls made in order and
\* the result it sets.
handleDecode(mod, img, buf, pw) ==
  LET fn == IF mod = "image" /\ img # <<>> THEN "decodeMessage"
            ELSE IF mod = "audio" /\ buf # <<>> THEN "decodeAudioLSB" ELSE "none"
      d == IF fn = "decodeMessage" THEN decodeMessage(img, pw)
           ELSE IF fn = "decodeAudioLSB" THEN decodeAudioLSB(buf)
           ELSE [err |-> "nocarrier", bytes |-> <<>>]
      c1 == IF fn = "decodeMessage" THEN <<Call(fn, img, pw, d.err, d.bytes)>>
            ELSE IF fn = "decodeAudioLSB" THEN <<Call(fn, buf, <<>>, d.err, d.bytes)>>
            ELSE <<>>
  IN IF d.err # "none"
     THEN [calls |-> c1, result |-> [type |-> "error", text |-> d.err, raw |-> <<>>]]
     ELSE IF pw # <<>>
     THEN LET o == decryptData(d.bytes, pw)
          IN [calls |-> c1 \o <<Call("decryptData", d.bytes, pw, o.err, o.bytes)>>,
              result |-> IF o.err = "none"
                         THEN [type |-> "success", text |-> "decoded", raw |-> o.bytes]
                         ELSE [type |-> "error", text |-> o.err, raw |-> <<>>]]
     ELSE [calls |-> c1, result |-> [type |-> "success", text |-> "decoded", raw |-> d.bytes]]

\* Images as a canvas returns them: the alpha byte of every pixel is 255.
AppImageData(w, h, kind) ==
  LET img == ImageData(w, h, kind)
  IN [p \in 1..(4 * w * h) |-> IF p % 4 = 0 THEN 255 ELSE img[p]]

\* Files given to handleFile: a small image and a small WAV file that carry a
\* 2-byte frame already, an image and a WAV file large enough for a sealed
\* payload, and a file of another type.
AppFiles ==
  {[type |-> "image", w |-> 2, h |-> AppH,
    bytes |-> AppImageData(2, AppH, [fill |-> "mixed", planted |-> 2])],
   [type |-> "image", w |-> AppW, h |-> AppH,
    bytes |-> AppImageData(AppW, AppH, [fill |-> "mixed", planted |-> 0])],
   [type |-> "audio", w |-> 0, h |-> 0,
    bytes |-> MakeWav(16, 48, [fill |-> "mixed", planted |-> 2], 0)],
   [type |-> "audio", w |-> 0, h |-> 0,
    bytes |-> MakeWav(16, AppSamples, [fill |-> "mixed", planted |-> 0], 0)],
   [type |-> "other", w |-> 0, h |-> 0, bytes |-> <<>>]}

\* The files the last encode offered for download.
StegoFiles ==
  (IF stegoImage # <<>>
   THEN {[type |-> "image", w |-> width, h |-> height, bytes |-> stegoImage]} ELSE {})
  \cup (IF stego # <<>>
        THEN {[type |-> "audio", w |-> 0, h |-> 0, bytes |-> stego]} ELSE {})

AppPasswords == { <<>>, <<97, 98>> }

\* payloadType 'text' with a message (chosen: the message is not empty), or
\* payloadType 'file' with a secretFile (chosen: it is not null).
AppSecrets ==
  {NoSecret,
   [type |-> "text", chosen |-> TRUE, bytes |-> Utf8(<<104, 233>>)],
   [type |-> "file", chosen |-> TRUE, bytes |-> <<>>]}

\* The salt and the iv crypto.getRandomValues returns to the application.
AppSalts == {[i \in 1..SALT_SIZE |-> (i * 29 + 3) % 256]}
AppIvs == {[i \in 1..IV_SIZE |-> i]}

InitApp ==
  /\ ScatterIdle /\ CryptoIdle /\ AppIdle /\ GenIdle /\ WalkIdle /\ TkIdle /\ AsyncIdle
  /\ modality = "image" /\ width = 0 /\ height = 0 /\ data = <<>>
  /\ wav = <<>> /\ stego = <<>> /\ op = "load" /\ opErr = "none"
  /\ before = <<>> /\ inPayload = <<>> /\ inPassword = <<>>
  /\ decPassword = <<>> /\ decSource = "carrier" /\ encoded = "no" /\ out = <<>>

\* handleFile(file), its reader and image callbacks included.
HandleFile ==
  /\ handlerRuns < MaxHandlerRuns /\ handlerRuns' = handlerRuns + 1
  /\ \E file \in AppFiles \cup StegoFiles :
       \/ /\ file.type = "image"
          /\ modality' = "image"
          /\ width' = file.w /\ height' = file.h /\ data' = file.bytes
          /\ stegoImage' = <<>> /\ wav' = <<>>
          /\ result' = NoResult
          /\ UNCHANGED stego
       \/ /\ file.type = "audio"
          /\ modality' = "audio"
          /\ wav' = file.bytes /\ stego' = <<>>
          /\ width' = 0 /\ height' = 0 /\ data' = <<>> /\ stegoImage' = <<>>
          /\ result' = NoResult
       \/ /\ file.type = "other"
          /\ result' = [type |-> "error", text |-> "unsupportedfile", raw |-> <<>>]
          /\ UNCHANGED <<modality, width, height, data, wav, stego, stegoImage>>
  /\ rawFile' = TRUE
  /\ handled' = "file"
  /\ calls' = <<>>
  /\ UNCHANGED <<passwordField, secret, scatterVars, cryptoVars, op, opErr, before,
                 inPayload, inPassword, decPassword, decSource, encoded, out, genVars, walkVars, tkVars, asyncVars>>

\* handleEncode(), the button being enabled only once a file was given.  The
\* password and payload fields hold what the user left in them (setPassword,
\* setPayloadType, setMessage and setSecretFile only store their argument).
HandleEncode ==
  /\ rawFile
  /\ handlerRuns < MaxHandlerRuns /\ handlerRuns' = handlerRuns + 1
  /\ handled' = "encode"
  /\ \E pw \in AppPasswords, sec \in AppSecrets :
       /\ passwordField' = pw
       /\ secret' = sec
       /\ IF ~sec.chosen
          THEN /\ calls' = <<>>
               /\ UNCHANGED <<stegoImage, stego, result, gcmSealed, rngState>>
          ELSE \E salt \in AppSalts, iv \in AppIvs :
                 LET r == handleEncode(modality, data, wav, sec, pw, salt, iv)
                 IN /\ calls' = r.calls
                    /\ result' = r.result
                    /\ stegoImage' = IF r.stegoImage # <<>> THEN r.stegoImage
                                     ELSE stegoImage
                    /\ stego' = IF r.stegoAudio # <<>> THEN r.stegoAudio ELSE stego
                    /\ gcmSealed' = IF pw # <<>>
                                    THEN [key |-> deriveKey(pw, salt), iv |-> iv,
                                          ciphertext |-> AesGcmEncrypt(
                                             deriveKey(pw, salt), iv, sec.bytes)]
                                    ELSE gcmSealed
                    /\ rngState' = IF r.stegoImage # <<>>
                                   THEN ScatterFinalState(Len(data) \div 4, pw)
                                   ELSE rngState
  /\ UNCHANGED <<rawFile, scatterCall, scatterPrev,
                 modality, width, height, data, wav, op, opErr, before,
                 inPayload, inPassword, decPassword, decSource, encoded, out,
                 phase, sealPayload, sealPassword, blob, tamperedAt, openPassword, opened,
                 genVars, walkVars, tkVars, asyncVars>>

\* handleDecode(), with the password field as the user left it.
HandleDecode ==
  /\ rawFile
  /\ handlerRuns < MaxHandlerRuns /\ handlerRuns' = handlerRuns + 1
  /\ handled' = "decode"
  /\ \E pw \in AppPasswords :
       /\ passwordField' = pw
       /\ LET r == handleDecode(modality, data, wav, pw)
          IN /\ calls' = r.calls
             /\ result' = r.result
       /\ rngState' = IF modality = "image" /\ data # <<>>
                      THEN ScatterFinalState(Len(data) \div 4, pw)
                      ELSE rngState
  /\ UNCHANGED <<rawFile, stegoImage, secret, scatterCall, scatterPrev,
                 codecVars, cryptoVars, genVars, walkVars, tkVars, asyncVars>>

NextApp == HandleFile \/ HandleEncode \/ HandleDecode

SpecApp == InitApp /\ [][NextApp]_vars

\* ------------------------------------------- application, callbacks apart
\* App.tsx with every FileReader and Image callback and every continuation
\* after an await a step of its own.  A handler sees the state of the render
\* that created it.

\* Files given to handleFile: two small images (one carrying a 2-byte frame), a
\* small 16-bit WAV file carrying a 2-byte frame, an 8-bit WAV file, and a file
\* of another type.
AsyncFiles ==
  {[type |-> "image", w |-> 2, h |-> AppH,
    bytes |-> AppImageData(2, AppH, [fill |-> "mixed", planted |-> 2])],
   [type |-> "image", w |-> 3, h |-> AppH,
    bytes |-> AppImageData(3, AppH, [fill |-> "mixed", planted |-> 0])],
   [type |-> "audio", w |-> 0, h |-> 0,
    bytes |-> MakeWav(16, 48, [fill |-> "mixed", planted |-> 2], 0)],
   [type |-> "audio", w |-> 0, h |-> 0,
    bytes |-> MakeWav(8, 48, [fill |-> "mixed", planted |-> 0], 0)],
   [type |-> "other", w |-> 0, h |-> 0, bytes |-> <<>>]}

InitAsync ==
  /\ ScatterIdle /\ CodecIdle /\ CryptoIdle /\ AppIdle /\ GenIdle /\ WalkIdle
  /\ TkIdle /\ AsyncIdle

\* handleFile(file) up to the start of its reader; getMetadataInfo resolves
\* without leaving the task.
SelectFile ==
  /\ uiEvents < MaxUiEvents /\ uiEvents' = uiEvents + 1
  /\ \E file \in AsyncFiles :
       /\ rawName' = file /\ metadata' = file /\ lastFile' = file
       /\ \/ /\ file.type = "image"
             /\ modality' = "image"
             /\ result' = NoResult
             /\ loads' = loads \cup {[stage |-> "reader", file |-> file]}
          \/ /\ file.type = "audio"
             /\ modality' = "audio"
             /\ result' = NoResult
             /\ loads' = loads \cup {[stage |-> "reader", file |-> file]}
          \/ /\ file.type = "other"
             /\ result' = [type |-> "error", text |-> "unsupportedfile", raw |-> <<>>]
             /\ UNCHANGED <<modality, loads>>
  /\ rawFile' = TRUE
  /\ UNCHANGED <<width, height, data, wav, stego, stegoImage, passwordField, secret,
                 handled, calls, handlerRuns, isProcessing, capacity, pending,
                 finished, resets, storedLate, activeTab>>
  /\ UNCHANGED <<op, opErr, before, inPayload, inPassword, decPassword, decSource,
                 encoded, out, scatterVars, cryptoVars, genVars, walkVars, tkVars>>

\* reader.onload of handleFile: of an image file it gives the data URL to an
\* Image, of an audio file it stores the buffer.
ReaderLoaded(l) ==
  /\ l \in loads /\ l.stage = "reader"
  /\ IF l.file.type = "image"
     THEN /\ loads' = (loads \ {l}) \cup {[stage |-> "image", file |-> l.file]}
          /\ UNCHANGED <<width, height, data, wav, stego, stegoImage, capacity>>
     ELSE /\ loads' = loads \ {l}
          /\ wav' = l.file.bytes
          /\ capacity' = calculateAudioCapacity(l.file.bytes)
          /\ stego' = <<>>
          /\ width' = 0 /\ height' = 0 /\ data' = <<>>
          /\ stegoImage' = <<>>
  /\ UNCHANGED <<modality, rawFile, passwordField, secret, handled, calls, result,
                 handlerRuns, isProcessing, rawName, metadata, pending, finished,
                 lastFile, resets, storedLate, activeTab, uiEvents>>
  /\ UNCHANGED <<op, opErr, before, inPayload, inPassword, decPassword, decSource,
                 encoded, out, scatterVars, cryptoVars, genVars, walkVars, tkVars>>

\* img.onload of handleFile.
ImageLoaded(l) ==
  /\ l \in loads /\ l.stage = "image"
  /\ loads' = loads \ {l}
  /\ data' = l.file.bytes /\ width' = l.file.w /\ height' = l.file.h
  /\ capacity' = calculateCapacity(l.file.w, l.file.h)
  /\ stegoImage' = <<>>
  /\ wav' = <<>>
  /\ UNCHANGED <<modality, stego, rawFile, passwordField, secret, handled, calls,
                 result, handlerRuns, isProcessing, rawName, metadata, pending,
                 finished, lastFile, resets, storedLate, activeTab, uiEvents>>
  /\ UNCHANGED <<op, opErr, before, inPayload, inPassword, decPassword, decSource,
                 encoded, out, scatterVars, cryptoVars, genVars, walkVars, tkVars>>

FileCallback == \E l \in loads : ReaderLoaded(l) \/ ImageLoaded(l)

\* What resetAll() stores; isProcessing is not among it, and no pending
\* callback or continuation is cancelled.
resetAll ==
  /\ data' = <<>> /\ width' = 0 /\ height' = 0 /\ wav' = <<>>
  /\ rawFile' = FALSE /\ rawName' = NoFile /\ metadata' = NoFile
  /\ secret' = NoSecret /\ passwordField' = <<>>
  /\ stegoImage' = <<>> /\ stego' = <<>>
  /\ result' = NoResult
  /\ capacity' = 0

\* The modality buttons: setModality(m); resetAll().
SetModality ==
  /\ uiEvents < MaxUiEvents /\ uiEvents' = uiEvents + 1
  /\ \E m \in {"image", "audio"} : modality' = m
  /\ resetAll
  /\ resets' = resets + 1
  /\ lastFile' = NoFile
  /\ UNCHANGED <<handled, calls, handlerRuns, isProcessing, loads, pending, finished,
                 storedLate, activeTab>>
  /\ UNCHANGED <<op, opErr, before, inPayload, inPassword, decPassword, decSource,
                 encoded, out, scatterVars, cryptoVars, genVars, walkVars, tkVars>>

\* The tab buttons: setActiveTab(t); setResult(null); setStegoImage(null);
\* setStegoAudio(null).
SetActiveTab ==
  /\ uiEvents < MaxUiEvents /\ uiEvents' = uiEvents + 1
  /\ \E t \in {"encode", "decode"} : activeTab' = t
  /\ result' = NoResult /\ stegoImage' = <<>> /\ stego' = <<>>
  /\ resets' = resets + 1
  /\ UNCHANGED <<modality, width, height, data, wav, rawFile, passwordField, secret,
                 handled, calls, handlerRuns, isProcessing, capacity, rawName,
                 metadata, loads, pending, finished, lastFile, storedLate>>
  /\ UNCHANGED <<op, opErr, before, inPayload, inPassword, decPassword, decSource,
                 encoded, out, scatterVars, cryptoVars, genVars, walkVars, tkVars>>

\* TRUE when the call reaches an await that leaves the task: arrayBuffer() of
\* the payload file, encryptData, decryptData, or the load of the carrier image.
Awaits(c) ==
  IF c.kind = "encode"
  THEN c.secret.type = "file" \/ c.password # <<>>
       \/ (c.modality = "image" /\ c.image # <<>>)
  ELSE (c.modality = "image" /\ c.image # <<>>)
       \/ (c.modality = "audio" /\ c.audioBuffer # <<>> /\ c.password # <<>>
           /\ decodeAudioLSB(c.audioBuffer).err = "none")

\* The try block of the call with what its closure holds: the calls made, the
\* stegoImage and stegoAudio stored (<<>>: none) and the result stored
\* (NoResult: none).
Runs(c, salt, iv) ==
  IF c.kind = "encode"
  THEN handleEncode(c.modality, c.image, c.audioBuffer, c.secret, c.password, salt, iv)
  ELSE LET r == handleDecode(c.modality, c.image, c.audioBuffer, c.password)
       IN [calls |-> r.calls, stegoImage |-> <<>>, stegoAudio |-> <<>>,
           result |-> r.result]

\* What the call stores from its last await on, catch and finally included,
\* given what its try block did (r); shown is the result state the call
\* itself left.
Stores(c, shown, r) ==
  /\ calls' = r.calls
  /\ handled' = c.kind
  /\ result' = IF r.result # NoResult THEN r.result ELSE shown
  /\ stegoImage' = IF r.stegoImage # <<>> THEN r.stegoImage ELSE stegoImage
  /\ stego' = IF r.stegoAudio # <<>> THEN r.stegoAudio ELSE stego
  /\ isProcessing' = FALSE
  /\ finished' = [n |-> finished.n + 1, kind |-> c.kind, calls |-> r.calls]
  /\ storedLate' = (storedLate
                     \/ (c.resets < resets
                         /\ (r.result # NoResult \/ r.stegoImage # <<>>
                             \/ r.stegoAudio # <<>>)))

\* The call with closure c, whose try block does r: suspended at its first
\* await that leaves the task, or run to its end when there is none.
Clicked(c, r) ==
  IF Awaits(c)
  THEN /\ pending' = [kind |-> c.kind, modality |-> c.modality, image |-> c.image,
                      audioBuffer |-> c.audioBuffer, secret |-> c.secret,
                      password |-> c.password, resets |-> c.resets, run |-> r]
       /\ isProcessing' = TRUE
       /\ result' = NoResult
       /\ UNCHANGED <<stegoImage, stego, handled, calls, finished, storedLate>>
  ELSE /\ Stores(c, NoResult, r)
       /\ UNCHANGED pending

\* The main button, which is disabled without a rawFile, while processing,
\* and on the encode tab without a payload: handleEncode() or handleDecode()
\* up to its first await that leaves the task, or to its end when there is
\* none.  The password and payload fields hold what the user typed last.  What
\* the try block will do is a function of what the closure holds now and of
\* the salt and iv drawn, and is kept with it.
ClickMain ==
  /\ uiEvents < MaxUiEvents /\ uiEvents' = uiEvents + 1
  /\ rawFile /\ ~isProcessing
  /\ \E pw \in AppPasswords, sec \in AppSecrets, salt \in AppSalts, iv \in AppIvs :
       /\ activeTab = "encode" => sec.chosen
       /\ activeTab = "decode" => sec = secret
       /\ passwordField' = pw /\ secret' = sec
       /\ LET c == [kind |-> activeTab, modality |-> modality, image |-> data,
                    audioBuffer |-> wav, secret |-> sec, password |-> pw,
                    resets |-> resets]
          IN Clicked(c, Runs(c, salt, iv))
  /\ UNCHANGED <<modality, width, height, data, wav, rawFile, handlerRuns, capacity,
                 rawName, metadata, loads, lastFile, resets, activeTab>>
  /\ UNCHANGED <<op, opErr, before, inPayload, inPassword, decPassword, decSource,
                 encoded, out, scatterVars, cryptoVars, genVars, walkVars, tkVars>>

\* The continuation of the suspended call after its awaits.
Resume ==
  /\ pending.kind # "none"
  /\ Stores(pending, result, pending.run)
  /\ pending' = NoPending
  /\ UNCHANGED <<modality, width, height, data, wav, rawFile, passwordField, secret,
                 handlerRuns, capacity, rawName, metadata, loads, lastFile, resets,
                 activeTab, uiEvents>>
  /\ UNCHANGED <<op, opErr, before, inPayload, inPassword, decPassword, decSource,
                 encoded, out, scatterVars, cryptoVars, genVars, walkVars, tkVars>>

NextAsync ==
  SelectFile \/ FileCallback \/ SetModality \/ SetActiveTab \/ ClickMain \/ Resume

SpecAsync == InitAsync /\ [][NextAsync]_vars

\* ---------------------------------------------------------------- toolkit
\* StegoToolkit.tsx with method 'lsb' and payloadType 'text', each callback a
\* step of its own.  A handler sees the state of the render that created it.

getImageCapacity(w, h) == calculateCapacity(w, h)

\* Files given to processFile: two images, the smaller one carrying a 1-byte
\* frame, and a dropped file that is no image (handleDrop passes any file on).
TkFiles ==
  {[type |-> "image", w |-> TkW, h |-> TkH,
    bytes |-> AppImageData(TkW, TkH, [fill |-> "mixed", planted |-> 1])],
   [type |-> "image", w |-> TkW, h |-> TkH + 1,
    bytes |-> AppImageData(TkW, TkH + 1, [fill |-> "mixed", planted |-> 0])],
   [type |-> "other", w |-> 0, h |-> 0, bytes |-> <<>>]}

\* What the user types into the message field, as UTF-8 bytes.
TkMessages == { <<>>, <<104>>, Utf8(<<104, 233>>) }

InitTk ==
  /\ ScatterIdle /\ CodecIdle /\ CryptoIdle /\ AppIdle /\ GenIdle /\ WalkIdle
  /\ TkIdle /\ AsyncIdle

\* processFile(file): both readers are started, nothing is stored yet.
TkProcessFile ==
  /\ tkEvents < MaxTkEvents /\ tkEvents' = tkEvents + 1
  /\ \E file \in TkFiles :
       tkLoads' = tkLoads \cup {[stage |-> "reader", file |-> file]}
  /\ UNCHANGED <<tkImage, tkCapacity, tkMode, tkMessage, tkResultImage, tkDecoded,
                 tkError, tkIsProcessing, tkProgress, tkOp, tkInterval, tkChecked,
                 tkDone, tkResets, tkStored>>
  /\ UNCHANGED <<scatterVars, codecVars, cryptoVars, appVars, genVars, walkVars,
                 asyncVars>>

\* reader.onload of processFile: the data URL is stored, the results are
\* cleared and an Image is given the URL (it loads only if the file is an image).
TkReaderLoaded(l) ==
  /\ l \in tkLoads /\ l.stage = "reader"
  /\ tkImage' = l.file
  /\ tkResultImage' = <<>> /\ tkDecoded' = NoBytes /\ tkError' = "none"
  /\ tkLoads' = (tkLoads \ {l})
                  \cup (IF l.file.type = "image"
                        THEN {[stage |-> "image", file |-> l.file]} ELSE {})
  /\ UNCHANGED <<tkCapacity, tkMode, tkMessage, tkIsProcessing, tkProgress, tkOp,
                 tkInterval, tkChecked, tkDone, tkResets, tkStored, tkEvents>>
  /\ UNCHANGED <<scatterVars, codecVars, cryptoVars, appVars, genVars, walkVars,
                 asyncVars>>

\* img.onload of processFile.
TkImageLoaded(l) ==
  /\ l \in tkLoads /\ l.stage = "image"
  /\ tkCapacity' = getImageCapacity(l.file.w, l.file.h)
  /\ tkLoads' = tkLoads \ {l}
  /\ UNCHANGED <<tkImage, tkMode, tkMessage, tkResultImage, tkDecoded, tkError,
                 tkIsProcessing, tkProgress, tkOp, tkInterval, tkChecked, tkDone,
                 tkResets, tkStored, tkEvents>>
  /\ UNCHANGED <<scatterVars, codecVars, cryptoVars, appVars, genVars, walkVars,
                 asyncVars>>

TkFileCallback == \E l \in tkLoads : TkReaderLoaded(l) \/ TkImageLoaded(l)

\* onChange of the message field.
TkSetMessage ==
  /\ tkEvents < MaxTkEvents /\ tkEvents' = tkEvents + 1
  /\ \E m \in TkMessages : m # tkMessage /\ tkMessage' = m
  /\ UNCHANGED <<tkImage, tkCapacity, tkMode, tkResultImage, tkDecoded, tkError,
                 tkIsProcessing, tkProgress, tkLoads, tkOp, tkInterval, tkChecked,
                 tkDone, tkResets, tkStored>>
  /\ UNCHANGED <<scatterVars, codecVars, cryptoVars, appVars, genVars, walkVars,
                 asyncVars>>

\* What reset() stores; capacity and isProcessing are not among it, and no
\* timer or callback is cancelled.
reset ==
  /\ tkImage' = NoFile /\ tkResultImage' = <<>> /\ tkDecoded' = NoBytes
  /\ tkMessage' = <<>> /\ tkError' = "none" /\ tkProgress' = 0
  /\ tkResets' = tkResets + 1
  /\ UNCHANGED <<tkCapacity, tkIsProcessing, tkLoads, tkOp, tkInterval, tkChecked,
                 tkDone, tkStored>>

\* The mode buttons: setMode(m); reset().
TkSetMode ==
  /\ tkEvents < MaxTkEvents /\ tkEvents' = tkEvents + 1
  /\ \E m \in {"encode", "decode"} : tkMode' = m
  /\ reset
  /\ UNCHANGED <<scatterVars, codecVars, cryptoVars, appVars, genVars, walkVars,
                 asyncVars>>

\* The capacity check of the LSB encode path: finalPayload.length + 4 > capacity.
TkRejects(len, cap) == len + 4 > cap

\* The try block of the timer callback with the mode, message, capacity and
\* image its closure holds: the error thrown ("none": none), the resultImage
\* and decodedBytes stored, and whether the capacity check was evaluated.
TkRun(o) ==
  IF o.mode = "encode"
  THEN IF o.message = <<>>
       THEN [err |-> "A text payload is required.", image |-> <<>>, decoded |-> NoBytes,
             checked |-> FALSE]
       ELSE IF TkRejects(Len(o.message), o.capacity)
       THEN [err |-> "Payload exceeds carrier capacity", image |-> <<>>,
             decoded |-> NoBytes, checked |-> TRUE]
       ELSE LET r == encodeMessage(o.image.bytes, o.message, <<>>)
            IN IF r.err # "none"
               THEN [err |-> r.err, image |-> <<>>, decoded |-> NoBytes,
                     checked |-> TRUE]
               ELSE [err |-> "none", image |-> r.data, decoded |-> NoBytes,
                     checked |-> TRUE]
  ELSE LET d == decodeMessage(o.image.bytes, <<>>)
       IN IF d.err # "none"
          THEN [err |-> "No LSB-encoded payload detected or header corrupted.",
                image |-> <<>>, decoded |-> NoBytes, checked |-> FALSE]
          ELSE [err |-> "none", image |-> <<>>,
                decoded |-> [set |-> TRUE, bytes |-> d.bytes], checked |-> FALSE]

\* processImage() up to img.src = image, from the process button, which is
\* disabled without an image, while processing, and in encode mode without a
\* message.  What the timer callback will do is a function of what the closure
\* holds now, and is kept with it.
TkProcessImage ==
  /\ tkEvents < MaxTkEvents /\ tkEvents' = tkEvents + 1
  /\ tkImage # NoFile /\ ~tkIsProcessing
  /\ tkMode = "encode" => tkMessage # <<>>
  /\ tkIsProcessing' = TRUE /\ tkProgress' = 0 /\ tkError' = "none"
  /\ tkInterval' = TRUE
  /\ tkOp' = [stage |-> "load", mode |-> tkMode, image |-> tkImage,
              message |-> tkMessage, capacity |-> tkCapacity, resets |-> tkResets,
              run |-> IF tkImage.type = "image"
                      THEN TkRun([mode |-> tkMode, image |-> tkImage,
                                  message |-> tkMessage, capacity |-> tkCapacity])
                      ELSE NoRun]
  /\ UNCHANGED <<tkImage, tkCapacity, tkMode, tkMessage, tkResultImage, tkDecoded,
                 tkLoads, tkChecked, tkDone, tkResets, tkStored>>
  /\ UNCHANGED <<scatterVars, codecVars, cryptoVars, appVars, genVars, walkVars,
                 asyncVars>>

\* The stepInterval callback.
TkTick ==
  /\ tkInterval
  /\ tkProgress' = (IF tkProgress + 5 < 95 THEN tkProgress + 5 ELSE 95)
  /\ UNCHANGED <<tkImage, tkCapacity, tkMode, tkMessage, tkResultImage, tkDecoded,
                 tkError, tkIsProcessing, tkLoads, tkOp, tkInterval, tkChecked,
                 tkDone, tkResets, tkStored, tkEvents>>
  /\ UNCHANGED <<scatterVars, codecVars, cryptoVars, appVars, genVars, walkVars,
                 asyncVars>>

\* img.onload of processImage: the image is drawn and the 600 ms timer set.
\* No handler is set for an image that fails to load.
TkCarrierLoaded ==
  /\ tkOp.stage = "load" /\ tkOp.image.type = "image"
  /\ tkOp' = [tkOp EXCEPT !.stage = "timer"]
  /\ UNCHANGED <<tkImage, tkCapacity, tkMode, tkMessage, tkResultImage, tkDecoded,
                 tkError, tkIsProcessing, tkProgress, tkLoads, tkInterval, tkChecked,
                 tkDone, tkResets, tkStored, tkEvents>>
  /\ UNCHANGED <<scatterVars, codecVars, cryptoVars, appVars, genVars, walkVars,
                 asyncVars>>

\* The timer callback of processImage: try, catch and finally.
TkTimerFires ==
  /\ tkOp.stage = "timer"
  /\ LET r == tkOp.run
     IN /\ tkResultImage' = IF r.image # <<>> THEN r.image ELSE tkResultImage
        /\ tkDecoded' = IF r.decoded.set THEN r.decoded ELSE tkDecoded
        /\ tkProgress' = IF r.err = "none" THEN 100 ELSE tkProgress
        /\ tkError' = IF r.err = "none" THEN tkError ELSE r.err
        /\ tkDone' = IF r.err = "none" THEN "ok" ELSE "error"
        /\ tkChecked' = IF r.checked
                        THEN [made |-> TRUE, capacity |-> tkOp.capacity,
                              state |-> tkCapacity, len |-> Len(tkOp.message), w |-> tkOp.image.w,
                              h |-> tkOp.image.h,
                              rejected |-> r.err = "Payload exceeds carrier capacity"]
                        ELSE tkChecked
        /\ tkStored' = (tkStored \/ (tkOp.resets < tkResets
                                      /\ (r.image # <<>> \/ r.decoded.set)))
  /\ tkIsProcessing' = FALSE
  /\ tkInterval' = FALSE
  /\ tkOp' = NoTkOp
  /\ UNCHANGED <<tkImage, tkCapacity, tkMode, tkMessage, tkLoads, tkResets, tkEvents>>
  /\ UNCHANGED <<scatterVars, codecVars, cryptoVars, appVars, genVars, walkVars,
                 asyncVars>>

NextTk ==
  \/ TkProcessFile \/ TkFileCallback \/ TkSetMessage \/ TkSetMode
  \/ TkProcessImage \/ TkTick \/ TkCarrierLoaded \/ TkTimerFires

\* The browser runs every callback that is due: the load event of an image
\* that can be decoded, and the timer.
SpecTk ==
  InitTk /\ [][NextTk]_vars /\ WF_vars(TkCarrierLoaded) /\ WF_vars(TkTimerFires)

\* ------------------------------------------------- properties of the codec
Max0(n) == IF n > 0 THEN n ELSE 0

\* Cells of the loaded carrier: width*height*3, or the number of whole 16-bit
\* samples after the data offset.
SampleCount(buf) == (Len(buf) - parseWavHeader(buf).dataOffset) \div 2

CellCount ==
  IF modality = "image" THEN width * height * 3 ELSE SampleCount(wav)

\* The buffer the last decode was given.
DecodedStego ==
  /\ op = "decode" /\ encoded = "ok"
  /\ modality = "image" => decPassword = inPassword
  /\ modality = "audio" => decSource = "stego"

\* C1 as stated: decoding, with the seed of the encode, the carrier an encode
\* produced returns exactly the payload, for every payload length from 0 up.
C1_RoundTripFromZero ==
  DecodedStego => (opErr = "none" /\ out = inPayload)

\* C1, amended: decoding, with the seed of the encode, the carrier an encode
\* produced returns exactly the payload, for every payload of at least one
\* byte that the encode accepted.
C1_RoundTrip ==
  (DecodedStego /\ Len(inPayload) >= 1) => (opErr = "none" /\ out = inPayload)

C1_Witness ==
  /\ DecodedStego /\ modality = "image"
  /\ inPassword = <<97, 98>> /\ Len(inPayload) = 2
  /\ opErr = "none" /\ out = inPayload

\* The bytes of imageData.data an encode of the payload may touch: the first
\* 8*(4+len) cells in placement order.
TouchedBytes ==
  LET pixelIndices == PixelIndices(Len(before) \div 4, inPassword)
      wanted == 8 * (4 + Len(inPayload))
      n == IF wanted <= CellCount THEN wanted ELSE CellCount
  IN {CellIndex(pixelIndices, k) : k \in 0..(n - 1)}

\* C2: after encodeMessage every alpha byte is unchanged, the 7 high bits of
\* every byte are unchanged, and every byte outside the first 8*(4+len) cells
\* of the placement order is unchanged.
C2_PixelIsolation ==
  (modality = "image" /\ op = "encode") =>
     /\ Len(data) = Len(before)
     /\ LET touched == TouchedBytes
        IN \A p \in 1..Len(data) :
             /\ p % 4 = 0 => data[p] = before[p]
             /\ data[p] \div 2 = before[p] \div 2
             /\ p \notin touched => data[p] = before[p]

C2_Witness ==
  /\ modality = "image" /\ op = "encode" /\ opErr = "none"
  /\ inPassword # <<>> /\ Len(inPayload) >= 1
  /\ \E p \in 1..Len(data) : data[p] # before[p]
  /\ \E p \in 1..Len(data) : p % 4 # 0 /\ p \notin TouchedBytes

\* capacity(carrier) as the application computes it on load.
Capacity ==
  IF modality = "image" THEN calculateCapacity(width, height)
  ELSE calculateAudioCapacity(wav)

\* C3 as stated: on every carrier the encode of capacity bytes succeeds and
\* the encode of capacity + 1 bytes fails with the capacity error.
C3_BoundaryEveryCarrier ==
  op = "encode" =>
     /\ Len(inPayload) = Capacity => opErr = "none"
     /\ Len(inPayload) = Capacity + 1 => opErr = "capacity"

\* C3, amended: the same on every carrier of at least 32 cells (for a sample
\* carrier, a parsable 16-bit WAV).
C3_Boundary ==
  (/\ op = "encode"
   /\ modality = "audio" =>
        (parseWavHeader(wav).err = "none" /\ parseWavHeader(wav).bitsPerSample = 16)
   /\ CellCount >= 32) =>
     /\ Len(inPayload) = Capacity => opErr = "none"
     /\ Len(inPayload) = Capacity + 1 => opErr = "capacity"

C3_Witness ==
  /\ op = "encode" /\ modality = "audio" /\ CellCount = 48
  /\ Capacity = 2 /\ Len(inPayload) = 2 /\ opErr = "none"

\* C4: an encode that fails with the capacity error leaves the carrier as it
\* was when the call was entered.
C4_NoPartialWrite ==
  (op = "encode" /\ opErr = "capacity") =>
     /\ modality = "image" => data = before
     /\ modality = "audio" => (wav = before /\ stego = <<>>)

C4_Witness ==
  /\ op = "encode" /\ opErr = "capacity" /\ modality = "image"
  /\ CellCount >= 32 /\ inPassword # <<>> /\ data = before

\* 32 + 8*length > cells, for a 32-bit length.
FrameExceeds(length, cells) == U32Gt(length, (cells - 32) \div 8)

\* C5: decodeMessage rejects with no-payload-detected whenever the header
\* length it decoded is 0 or 32 + 8*length exceeds the cell count.
C5_PixelDecodeRejects ==
  (modality = "image" /\ op = "decode") =>
     LET length == DecodedLength(before, decPassword)
     IN (U32IsZero(length) \/ FrameExceeds(length, CellCount)) => opErr = "nopayload"

\* C6: decodeAudioLSB of a parsable WAV rejects with no-payload-detected
\* whenever the carrier cannot hold the header, the header length is 0, or
\* 32 + 8*length exceeds the sample count; it fails with no other error.
C6_SampleDecodeRejects ==
  (modality = "audio" /\ op = "decode" /\ parseWavHeader(before).err = "none") =>
     /\ opErr \in {"none", "nopayload"}
     /\ SampleCount(before) < 32 => opErr = "nopayload"
     /\ SampleCount(before) >= 32 =>
          LET length == GetUint32BE(BytesFromBits(
                          ReadSamples(before, parseWavHeader(before).dataOffset, 0, 32), 4))
          IN (U32IsZero(length) \/ FrameExceeds(length, SampleCount(before)))
                => opErr = "nopayload"

\* C9: the pixel capacity is max(0, floor(width*height*3/8) - 4) and the
\* sample capacity is max(0, floor(sampleCount/8) - 4); neither is negative.
C9_CapacityFormula ==
  /\ modality = "image" =>
       calculateCapacity(width, height) = Max0(((width * height * 3) \div 8) - 4)
  /\ (modality = "audio" /\ parseWavHeader(wav).err = "none") =>
       /\ calculateAudioCapacity(wav) = Max0((SampleCount(wav) \div 8) - 4)
       /\ calculateAudioCapacity_nullterm(wav) = Max0((SampleCount(wav) \div 8) - 4)

\* Bit k of the frame of a payload, as the format defines it: the payload's
\* byte length as a 32-bit big-endian number, then its bytes, each most
\* significant bit first.  A length is below 2^31, so its top bit is 0.
FormatBit(payload, k) ==
  IF k = 0 THEN 0
  ELSE IF k < 32 THEN (Len(payload) \div (2 ^ (31 - k))) % 2
  ELSE (payload[((k - 32) \div 8) + 1] \div (2 ^ (7 - ((k - 32) % 8)))) % 2

\* Low bit of cell k of a carrier, cells counted sequentially: channel k % 3
\* of pixel k div 3, or sample k.
SequentialCellBit(k) ==
  IF modality = "image" THEN data[(k \div 3) * 4 + (k % 3) + 1] % 2
  ELSE GetInt16LE(stego, parseWavHeader(stego).dataOffset + 2 * k) % 2

SequentialCellBitBefore(k) ==
  IF modality = "image" THEN before[(k \div 3) * 4 + (k % 3) + 1] % 2
  ELSE GetInt16LE(before, parseWavHeader(before).dataOffset + 2 * k) % 2

\* C13: after a successful encode with the empty seed, cell k holds bit k of
\* the frame for every k below 32 + 8*len, and the low bit of every later cell
\* is as it was.
C13_SequentialFraming ==
  (op = "encode" /\ opErr = "none" /\ inPassword = <<>>) =>
     /\ \A k \in 0..(32 + 8 * Len(inPayload) - 1) :
          SequentialCellBit(k) = FormatBit(inPayload, k)
     /\ \A k \in (32 + 8 * Len(inPayload))..(CellCount - 1) :
          SequentialCellBit(k) = SequentialCellBitBefore(k)

C13_Witness ==
  /\ op = "encode" /\ opErr = "none" /\ inPassword = <<>> /\ modality = "image"
  /\ Len(inPayload) = 2 /\ inPayload[1] # 0 /\ inPayload[1] # 255
  /\ CellCount > 32 + 8 * Len(inPayload)
  /\ \E k \in 0..(32 + 8 * Len(inPayload) - 1) :
       SequentialCellBit(k) # SequentialCellBitBefore(k)

\* C14: after a successful encode of a pixel carrier with a non-empty seed,
\* with order the scatter order over all width*height*3 cells, cell order[k]
\* holds bit k of the frame for every k below 32 + 8*len, every other cell
\* keeps its low bit, and a decode with that seed returns the bytes that the
\* cells order[32], order[33], ... spell.
C14_CellScatter ==
  (modality = "image" /\ inPassword # <<>> /\ encoded = "ok") =>
     LET order == getScatteredIndices(CellCount, inPassword)
         frameBits == 32 + 8 * Len(inPayload)
     IN /\ op = "encode" =>
             /\ \A k \in 0..(frameBits - 1) :
                  SequentialCellBit(order[k + 1]) = FormatBit(inPayload, k)
             /\ \A k \in frameBits..(CellCount - 1) :
                  SequentialCellBit(order[k + 1]) = SequentialCellBitBefore(order[k + 1])
        /\ (op = "decode" /\ decPassword = inPassword /\ opErr = "none") =>
             out = BytesFromBits([k \in 1..(8 * Len(out)) |->
                                    SequentialCellBit(order[32 + k])], Len(out))

\* C15: encodeAudioLSB and decodeAudioLSB of a parsable WAV whose
\* bits-per-sample field is not 16 fail with the unsupported-carrier error,
\* return nothing and leave the buffer as it was.
C15_UnsupportedCarrier ==
  (/\ modality = "audio" /\ op \in {"encode", "decode"}
   /\ parseWavHeader(before).err = "none"
   /\ parseWavHeader(before).bitsPerSample # 16) =>
     /\ opErr = "unsupported"
     /\ wav = before
     /\ op = "encode" => stego = <<>>
     /\ op = "decode" => out = <<>>

\* The last decode read, with another seed, the image an encode produced.
DecodedWithOtherSeed ==
  /\ modality = "image" /\ op = "decode" /\ encoded = "ok"
  /\ decPassword # inPassword

\* C16 as stated: decoding with a seed other than the seed of the encode never
\* returns the payload: it fails with no-payload-detected or returns other
\* bytes.
C16_WrongSeedNeverPayload ==
  DecodedWithOtherSeed => (opErr = "nopayload" \/ (opErr = "none" /\ out # inPayload))

\* C16, amended: decoding with another non-empty seed whose character codes
\* have the same sum (sums 0 and 1 counting as the same) returns the payload
\* of at least one byte that was encoded with a non-empty seed.
C16_SeedCollision ==
  (/\ DecodedWithOtherSeed
   /\ inPassword # <<>> /\ decPassword # <<>>
   /\ Max0(SumCodes(decPassword) - 1) = Max0(SumCodes(inPassword) - 1)
   /\ Len(inPayload) >= 1) =>
     (opErr = "none" /\ out = inPayload)

C16_Witness ==
  /\ DecodedWithOtherSeed
  /\ inPassword = <<97, 98>> /\ decPassword = <<98, 97>>
  /\ Len(inPayload) = 2 /\ opErr = "none" /\ out = inPayload

\* C17: writing a bit into any 16-bit sample leaves a sample in
\* -32768..32767 with the same 15 high bits and the written low bit; in the
\* buffer encodeAudioLSB returns, every byte before the data offset, the high
\* byte of every sample, every sample from index 8*(4+len) on and any stray
\* last byte are as in the buffer it was given, which itself is untouched.
C17_SampleIsolation ==
  /\ (modality = "sample" /\ op = "encode") =>
       LET v == GetInt16LE(before, 0)
           w == GetInt16LE(stego, 0)
       IN /\ Len(stego) = 2
          /\ w \in (-(2 ^ 15))..(2 ^ 15 - 1)
          /\ w \div 2 = v \div 2
          /\ w % 2 = inPayload[1]
  /\ (modality = "audio" /\ op = "encode" /\ opErr = "none") =>
       LET dataOffset == parseWavHeader(before).dataOffset
           frameBits == 8 * (4 + Len(inPayload))
       IN /\ wav = before
          /\ Len(stego) = Len(before)
          /\ \A p \in 1..Len(before) :
               LET i == (p - 1 - dataOffset) \div 2
               IN (\/ p <= dataOffset
                   \/ (p - 1 - dataOffset) % 2 = 1
                   \/ i >= frameBits) => stego[p] = before[p]
          /\ \A i \in 0..(frameBits - 1) :
               GetInt16LE(stego, dataOffset + 2 * i) \div 2
                 = GetInt16LE(before, dataOffset + 2 * i) \div 2

C17_Witness ==
  /\ modality = "sample" /\ op = "encode"
  /\ GetInt16LE(before, 0) = -(2 ^ 15) /\ inPayload = <<1>>
  /\ GetInt16LE(stego, 0) = 1 - 2 ^ 15

\* Low bit of the k-th cell, in the placement order of the last encode, of
\* the buffer the caller passed to it: imageData.data, or the WAV buffer.
CallerCellBit(k) ==
  IF modality = "image"
  THEN LET pixelIndices == PixelIndices(Len(data) \div 4, inPassword)
       IN data[pixelIndices[(k \div 3) + 1] * 4 + (k % 3) + 1] % 2
  ELSE GetInt16LE(wav, parseWavHeader(wav).dataOffset + 2 * k) % 2

OffsetGt(a, b) == a.hi > b.hi \/ (a.hi = b.hi /\ a.lo > b.lo)

WalkDone == walkPhase \in {"returned", "threw"}

\* Where parseWavHeader has got to is sound: a chunk header read lies inside
\* the buffer, and a returned dataOffset is in 20..byteLength, just past a
\* header whose id is 'data', and is the one the parser as a whole returns.
WalkSound ==
  /\ walkRead # -1 => (walkRead >= 12 /\ walkRead + 8 <= Len(wav))
  /\ walkPhase = "returned" =>
       /\ walkData >= 20 /\ walkData <= Len(wav)
       /\ walkRead = walkData - 8
       /\ <<wav[walkData - 7], wav[walkData - 6], wav[walkData - 5], wav[walkData - 4]>>
            = <<100, 97, 116, 97>>
       /\ parseWavHeader(wav).err = "none" /\ parseWavHeader(wav).dataOffset = walkData
  /\ walkPhase = "threw" => parseWavHeader(wav).err = walkErr

\* C25: parseWavHeader ends on every buffer, by returning or by throwing; each
\* iteration of its chunk walk that goes on leaves offset larger than it was;
\* it reads no chunk header that is not wholly inside the buffer; a returned
\* dataOffset is in 20..byteLength and follows a header whose id is 'data'.
C25_WalkTerminates ==
  /\ []WalkSound
  /\ [][walkPhase = "loop" => OffsetGt(walkOffset', walkOffset)]_walkOffset
  /\ <>WalkDone

C25_Witness ==
  /\ walkPhase = "returned" /\ walkData = 56 /\ walkRead = 48
  /\ Len(wav) = 56

\* C26: calculateAudioCapacity returns, whatever the buffer; it returns 0 when
\* parseWavHeader rejects the buffer, and never a negative number.
C26_CapacityTotal ==
  capReturned.called =>
     /\ capReturned.current >= 0 /\ capReturned.legacy >= 0
     /\ parseWavHeader(wav).err # "none" =>
          (capReturned.current = 0 /\ capReturned.legacy = 0)

C8_Bijection ==
  scatterCall # NoCall =>
     /\ Len(scatterCall.indices) = scatterCall.n
     /\ \A v \in 0..(scatterCall.n - 1) :
          Cardinality({k \in 1..scatterCall.n : scatterCall.indices[k] = v}) = 1
     /\ scatterCall.seed = <<>> => scatterCall.indices = Identity(scatterCall.n)

C8_Witness ==
  /\ scatterCall.n = MaxN /\ scatterCall.seed = <<0>>
  /\ scatterCall.indices # Identity(MaxN)

\* The reference scatter algorithm, on states written as four base-256
\* digits, least significant first.
RefDigits(n) == [k \in 1..4 |-> (n \div (256 ^ (k - 1))) % 256]

RECURSIVE RefCodeSum(_, _)
RefCodeSum(seed, k) == IF k > Len(seed) THEN 0 ELSE seed[k] + RefCodeSum(seed, k + 1)

RefInitialState(seed) ==
  LET sum == RefCodeSum(seed, 1) IN RefDigits(IF sum > 1 THEN sum ELSE 1)

\* state := (state * 1664525 + 1013904223) mod 2^32
RefNextState(b) ==
  LET a == RefDigits(1664525)
      c == RefDigits(1013904223)
      t1 == b[1] * a[1] + c[1]
      t2 == b[1] * a[2] + b[2] * a[1] + c[2] + (t1 \div 256)
      t3 == b[1] * a[3] + b[2] * a[2] + b[3] * a[1] + c[3] + (t2 \div 256)
      t4 == b[1] * a[4] + b[2] * a[3] + b[3] * a[2] + b[4] * a[1] + c[4] + (t3 \div 256)
  IN <<t1 % 256, t2 % 256, t3 % 256, t4 % 256>>

\* floor((state / 2^32) * m)
RefScaledDraw(b, m) ==
  LET u1 == b[1] * m
      u2 == b[2] * m + (u1 \div 256)
      u3 == b[3] * m + (u2 \div 256)
      u4 == b[4] * m + (u3 \div 256)
  IN u4 \div 256

RefSwap(order, i, j) ==
  [k \in 1..Len(order) |->
     IF k = i + 1 THEN order[j + 1] ELSE IF k = j + 1 THEN order[i + 1] ELSE order[k]]

RECURSIVE RefFisherYates(_, _, _)
RefFisherYates(order, b, i) ==
  IF i < 1 THEN order
  ELSE LET b1 == RefNextState(b)
       IN RefFisherYates(RefSwap(order, i, RefScaledDraw(b1, i + 1)), b1, i - 1)

RefOrder(n, seed) ==
  RefFisherYates([k \in 1..n |-> k - 1], RefInitialState(seed), n - 1)

\* C20: for a non-empty seed, getScatteredIndices(n, seed) returns the order
\* of the reference algorithm (state max(1, sum of the character codes), the
\* linear congruential step with 1664525 and 1013904223 modulo 2^32, a
\* Fisher-Yates pass from n-1 down to 1 with j = floor(state/2^32 * (i+1)));
\* two calls with the same n and seeds of the same character-code sum return
\* the same order.
C20_ScatterAlgorithm ==
  (scatterCall # NoCall /\ scatterCall.seed # <<>>) =>
     /\ scatterCall.indices = RefOrder(scatterCall.n, scatterCall.seed)
     /\ (/\ scatterPrev # NoCall /\ scatterPrev.seed # <<>>
         /\ scatterPrev.n = scatterCall.n
         /\ RefCodeSum(scatterPrev.seed, 1) = RefCodeSum(scatterCall.seed, 1))
          => scatterPrev.indices = scatterCall.indices

C20_Witness ==
  /\ scatterCall.n = 7 /\ scatterCall.seed = <<97, 98>>
  /\ scatterPrev.n = 7 /\ scatterPrev.seed = <<98, 97>>
  /\ scatterCall.indices = <<6, 0, 4, 3, 1, 5, 2>>
  /\ scatterPrev.indices = scatterCall.indices

\* The four 16-bit digits of a value given by its base-256 digits.
RefWide(t) == <<t[1] + 256 * t[2], t[3] + 256 * t[4], t[5] + 256 * t[6], t[7] + 256 * t[8]>>

\* state * 1664525 + 1013904223 as an integer of eight base-256 digits.
RefProduct(b) ==
  LET a == RefDigits(1664525)
      c == RefDigits(1013904223)
      t1 == b[1] * a[1] + c[1]
      t2 == b[1] * a[2] + b[2] * a[1] + c[2] + (t1 \div 256)
      t3 == b[1] * a[3] + b[2] * a[2] + b[3] * a[1] + c[3] + (t2 \div 256)
      t4 == b[1] * a[4] + b[2] * a[3] + b[3] * a[2] + b[4] * a[1] + c[4] + (t3 \div 256)
      t5 == b[2] * a[4] + b[3] * a[3] + b[4] * a[2] + (t4 \div 256)
      t6 == b[3] * a[4] + b[4] * a[3] + (t5 \div 256)
      t7 == b[4] * a[4] + (t6 \div 256)
  IN <<t1 % 256, t2 % 256, t3 % 256, t4 % 256, t5 % 256, t6 % 256, t7 % 256, t7 \div 256>>

RefStateDigits(s) == <<s.lo % 256, s.lo \div 256, s.hi % 256, s.hi \div 256>>

\* C21: the value next() holds before the modulo is the exact integer
\* state * 1664525 + 1013904223 and is below 2^53; the new state is the exact
\* recurrence modulo 2^32 (the integer step the scatterer takes) and lies in
\* [0, 2^32), so the float is in [0, 1); and the draw j at loop index i
\* satisfies 0 <= j <= i.
C21_ExactGenerator ==
  lcgFrom # NoRng =>
     /\ lcgWide = RefWide(RefProduct(RefStateDigits(lcgFrom)))
     /\ lcgWide[4] < 2 ^ 5
     /\ RefStateDigits(rngState) = RefNextState(RefStateDigits(lcgFrom))
     /\ rngState = SeededRandom_next(lcgFrom)
     /\ rngState.hi \in 0..(2 ^ 16 - 1) /\ rngState.lo \in 0..(2 ^ 16 - 1)
     /\ drawn.j >= 0 /\ drawn.j <= drawn.i

C21_Witness ==
  /\ lcgFrom = [hi |-> 65535, lo |-> 65535]
  /\ lcgWide[4] = 25
  /\ drawn.i = 32767 /\ drawn.j > 0

\* ------------------------------------------------ properties of the envelope
\* C10 as stated: opening the sealed blob with the sealing password returns
\* the payload; opening it with any different password fails; opening it
\* after any single byte changed fails.
C10_AnyOtherPassword ==
  phase = "opened" =>
     /\ (tamperedAt = 0 /\ openPassword = sealPassword)
          => (opened.err = "none" /\ opened.bytes = sealPayload)
     /\ (tamperedAt = 0 /\ openPassword # sealPassword)
          => opened.err = "decryptfailed"
     /\ (tamperedAt # 0 /\ openPassword = sealPassword)
          => opened.err = "decryptfailed"

\* C10, amended: the same, where a different password is one whose HMAC key
\* block (its UTF-8 bytes padded with zero bytes) differs.
C10_Envelope ==
  phase = "opened" =>
     /\ (tamperedAt = 0 /\ openPassword = sealPassword)
          => (opened.err = "none" /\ opened.bytes = sealPayload)
     /\ (tamperedAt = 0
           /\ HmacKeyBlock(Utf8(openPassword)) # HmacKeyBlock(Utf8(sealPassword)))
          => opened.err = "decryptfailed"
     /\ (tamperedAt # 0 /\ openPassword = sealPassword)
          => opened.err = "decryptfailed"

C10_Witness ==
  /\ phase = "opened" /\ tamperedAt \in 1..SALT_SIZE
  /\ Len(blob) = Len(sealPayload) + SALT_SIZE + IV_SIZE + GcmTagBytes
  /\ openPassword = sealPassword /\ Len(sealPayload) = 3
  /\ opened.err = "decryptfailed"

\* C11: whatever blob decryptData is given (opened with another password, with
\* a byte changed, or cut shorter than salt + nonce or than the tag), it
\* either returns or throws the one 'Decryption failed' error; when it throws
\* it returns no bytes, and a blob too short to hold salt, nonce and tag is
\* never opened.
C11_FailClosed ==
  phase = "opened" =>
     /\ opened.err \in {"none", "decryptfailed"}
     /\ opened.err # "none" => opened.bytes = <<>>
     /\ Len(blob) < SALT_SIZE + IV_SIZE + GcmTagBytes => opened.err = "decryptfailed"

C11_Witness ==
  /\ phase = "opened" /\ Len(blob) = SALT_SIZE + IV_SIZE - 1
  /\ openPassword = sealPassword
  /\ opened = [err |-> "decryptfailed", bytes |-> <<>>]

\* C19: the blob encryptData returns for a payload P is len(P) + 44 bytes
\* long: the salt the key was derived with in bytes [0,16), the nonce given
\* to the cipher in bytes [16,28), and from byte 28 on what the cipher
\* returned, len(P) + 16 bytes; decryptData takes the three back from those
\* offsets, so it opens that blob with the password it was sealed with.
C19_WireFormat ==
  (phase \in {"sealed", "opened"} /\ tamperedAt = 0) =>
     /\ Len(blob) = Len(sealPayload) + 44
     /\ \A p \in 1..16 : blob[p] = gcmSealed.key.salt[p]
     /\ \A p \in 1..12 : blob[16 + p] = gcmSealed.iv[p]
     /\ Len(gcmSealed.ciphertext) = Len(sealPayload) + 16
     /\ \A p \in 1..Len(gcmSealed.ciphertext) : blob[28 + p] = gcmSealed.ciphertext[p]
     /\ (phase = "opened" /\ openPassword = sealPassword) =>
          opened = [err |-> "none", bytes |-> sealPayload]

C19_Witness ==
  /\ phase = "opened" /\ tamperedAt = 0 /\ openPassword = sealPassword
  /\ Len(sealPayload) = 3 /\ Len(blob) = 47
  /\ blob[1] = 32 /\ blob[17] = 1
  /\ opened.err = "none"

\* --------------------------------------------- properties of the application
EncodeFns == {"encodeMessage", "encodeAudioLSB"}
DecodeFns == {"decodeMessage", "decodeAudioLSB"}

\* The carrier a successful encode call returned holds the frame of the
\* payload it was given, in the first 8*(4+len) cells of the placement order
\* of its password.
HoldsFrame(call) ==
  LET combined == CombinedBytes(call.data)
      frame == [k \in 1..(8 * Len(combined)) |-> FrameBit(combined, k - 1)]
  IN IF call.fn = "encodeMessage"
     THEN ReadCells(call.returned,
                    PixelIndices(Len(call.returned) \div 4, call.password),
                    0, 8 * Len(combined)) = frame
     ELSE ReadSamples(call.returned, parseWavHeader(call.returned).dataOffset,
                      0, 8 * Len(combined)) = frame

\* C12: handleEncode with a password calls encryptData on the payload first
\* and hands what it returned, with the same password, to the encoder, which
\* writes the frame of those bytes; without a password it calls no
\* encryptData and the encoder gets the payload itself.  handleDecode calls
\* decryptData only after a decoder returned, on the bytes it returned and
\* with the same password, and shows what decryptData returned; without a
\* password it calls no decryptData and shows the decoder's bytes.
C12_PipelineOrder ==
  /\ handled = "encode" =>
       /\ passwordField = <<>> =>
            \A i \in 1..Len(calls) :
               calls[i].fn \in EncodeFns /\ calls[i].data = secret.bytes
       /\ (passwordField # <<>> /\ secret.chosen) =>
            /\ Len(calls) >= 1
            /\ calls[1] = Call("encryptData", secret.bytes, passwordField, "none",
                               calls[1].returned)
            /\ \A i \in 2..Len(calls) :
                 /\ calls[i].fn \in EncodeFns
                 /\ calls[i].data = calls[1].returned
                 /\ calls[i].fn = "encodeMessage" => calls[i].password = calls[1].password
       /\ \A i \in 1..Len(calls) :
            (calls[i].fn \in EncodeFns /\ calls[i].err = "none") => HoldsFrame(calls[i])
  /\ handled = "decode" =>
       /\ \A i \in 1..Len(calls) :
            calls[i].fn = "decryptData" =>
               /\ i = 2
               /\ calls[1].fn \in DecodeFns /\ calls[1].err = "none"
               /\ calls[2].data = calls[1].returned
               /\ calls[2].password = passwordField
               /\ calls[1].fn = "decodeMessage" => calls[1].password = calls[2].password
       /\ passwordField = <<>> =>
            /\ \A i \in 1..Len(calls) : calls[i].fn \in DecodeFns
            /\ result.type = "success" =>
                 (Len(calls) = 1 /\ result.raw = calls[1].returned)
       /\ passwordField # <<>> =>
            /\ (Len(calls) >= 1 /\ calls[1].err = "none") => Len(calls) = 2
            /\ result.type = "success" =>
                 (Len(calls) = 2 /\ result.raw = calls[2].returned)

C12_Witness ==
  /\ handled = "decode" /\ modality = "image" /\ passwordField # <<>>
  /\ Len(calls) = 2 /\ calls[2].fn = "decryptData" /\ calls[2].err = "none"
  /\ result.type = "success" /\ result.raw = secret.bytes /\ Len(secret.bytes) = 3

\* ------------------------------- properties of the application's callbacks

\* C29: once the load callbacks of every handleFile call have run, modality,
\* the carrier (image or audioBuffer), capacity, rawFile and metadata all
\* describe the file selected last, and the carrier of the other modality is
\* null.
C29_CarrierConsistent ==
  (loads = {} /\ lastFile.type \in {"image", "audio"})
    => /\ modality = lastFile.type
       /\ rawName = lastFile /\ metadata = lastFile
       /\ lastFile.type = "image"
            => /\ data = lastFile.bytes /\ width = lastFile.w /\ height = lastFile.h
               /\ capacity = calculateCapacity(lastFile.w, lastFile.h)
               /\ wav = <<>>
       /\ lastFile.type = "audio"
            => /\ wav = lastFile.bytes
               /\ capacity = calculateAudioCapacity(lastFile.bytes)
               /\ data = <<>>

\* The calls of the log that threw.
Thrown(log) == {i \in 1..Len(log) : log[i].err # "none"}

\* C22: when a handleEncode or handleDecode call ends after one of its codec
\* or envelope calls failed (capacity exceeded, unsupported carrier, no
\* payload detected, decryption failed), the failing call is the last one it
\* made and no function was called twice, result holds an error carrying that
\* call's message, isProcessing is false, and stegoImage and stegoAudio are as
\* they were: no stego output and no decoded payload is published.
C22_ErrorsTerminal ==
  [][(finished'.n # finished.n /\ Thrown(finished'.calls) # {})
       => LET log == finished'.calls
          IN /\ Thrown(log) = {Len(log)}
             /\ \A i, j \in 1..Len(log) : i < j => log[i].fn # log[j].fn
             /\ result' = [type |-> "error", text |-> log[Len(log)].err, raw |-> <<>>]
             /\ ~isProcessing'
             /\ stegoImage' = stegoImage /\ stego' = stego]_vars

\* A handleDecode call that was suspended at its awaits has ended on a failed
\* decryption.
C22_Witness ==
  /\ finished.n > 0 /\ finished.kind = "decode"
  /\ Len(finished.calls) = 2
  /\ finished.calls[2].fn = "decryptData" /\ finished.calls[2].err = "decryptfailed"
  /\ result.type = "error" /\ ~isProcessing /\ pending = NoPending

\* No handleEncode / handleDecode call started before a resetAll or a tab
\* switch has stored a stego output or a result after it.
AppResetDiscards == ~storedLate

\* No processImage call started before a reset() has stored a stego image or
\* a decoded payload after it.
TkResetDiscards == ~tkStored

\* C30: after resetAll or a tab / modality switch in App, and after reset in
\* StegoToolkit, nothing produced by an encode or decode that was started
\* before the reset is stored into the state.
C30_ResetDiscards == AppResetDiscards /\ TkResetDiscards

\* ------------------------------------------------ properties of the toolkit

\* C24: whenever the toolkit's LSB encode path evaluates its capacity check
\* with the capacity state equal to getImageCapacity of the image it encodes,
\* it raises the capacity error exactly when the frame does not fit, that is
\* when 8 * (4 + len(payload)) > cellCount, and a payload no longer than
\* getImageCapacity(width, height) is passed on to encodeMessage.
C24_CapacityCheck ==
  (tkChecked.made /\ tkChecked.capacity = getImageCapacity(tkChecked.w, tkChecked.h))
    => /\ tkChecked.rejected <=> 8 * (4 + tkChecked.len) > 3 * tkChecked.w * tkChecked.h
       /\ tkChecked.len <= getImageCapacity(tkChecked.w, tkChecked.h)
            => ~tkChecked.rejected

\* C28: whenever the toolkit's LSB encode capacity check is evaluated, the
\* capacity it compares, or at least the capacity state at that moment, is
\* getImageCapacity of the image being encoded.
C28_CapacityOfEncodedImage ==
  tkChecked.made
    => \/ tkChecked.capacity = getImageCapacity(tkChecked.w, tkChecked.h)
       \/ tkChecked.state = getImageCapacity(tkChecked.w, tkChecked.h)

\* processProgress is within [0, 95] while processing, and is 100 only when
\* the latest operation completed without error.
TkProgressSound ==
  /\ tkIsProcessing => (tkProgress >= 0 /\ tkProgress <= 95)
  /\ tkProgress = 100 => tkDone = "ok"

\* C27: every processImage call that sets isProcessing to true eventually
\* sets it back to false and clears its progress interval, also when the
\* carrier image never fires its load event; processProgress stays within
\* [0, 95] while processing and reaches 100 only after an operation that
\* completed without error.
C27_ProcessingEnds ==
  /\ []TkProgressSound
  /\ tkIsProcessing ~> (~tkIsProcessing /\ ~tkInterval)

====
